---- MODULE Spec2Model ----
(***************************************************************************)
(* Terarrium governance core: the component pipeline (pipeline.mjs), the   *)
(* zone rules (zone-rules.mjs, checkZoneApproval) and the review cycle of  *)
(* the orchestrator (orchestrator.mjs, runGovernanceReview) with the agent *)
(* runner (agent-runner.mjs, runAgentReview, parseAgentResponse).          *)
(***************************************************************************)
EXTENDS Integers, Sequences, FiniteSets, TLC

VARIABLES
    pipeline,      \* src/data/pipeline-state.json: zone arrays and nextId
    activityLog,   \* src/data/activity-log.jsonl, one record per line
    decisions,     \* src/data/decisions.jsonl, one record per line
    clock,         \* the reading of new Date()
    rv,            \* the review cycle in flight (runGovernanceReview)
    apiCalls,      \* completion calls issued so far, in order (agent ids)
    budget,        \* logged operations and review cycles the behaviour may still start
    ret,           \* what the last operation returned or threw
    rin,           \* the arguments of the function under evaluation (rule engine, parser, tool)
    rout,          \* the result of that function, once evaluated
    files,         \* the files under the project root that the chat tools write
    changes,       \* src/data/changes.jsonl, one record per line
    chat           \* the chat request in flight (agenticChatResponse)

vars == <<pipeline, activityLog, decisions, clock, rv, apiCalls, budget, ret, rin, rout,
          files, changes, chat>>

----------------------------------------------------------------------------
(* Bounds *)

MaxComponents == 2     \* createComponent is enabled while nextId <= MaxComponents
MaxClock == 1          \* the clock reads 0..MaxClock
MaxReviews == 1        \* review cycles started in one behaviour
MaxLog == 4            \* activity lines appended in one behaviour
MaxScripted == 1       \* scripted completions in one chat request
MaxLines == 2          \* lines a ledger file holds at the start
MaxRecords == 2        \* records appended to a ledger in one behaviour
MaxTicks == 9          \* sweep intervals the clock of the session store runs through
MaxHistory == 2        \* user messages a session holds

----------------------------------------------------------------------------
(* Values *)

zoneOrder == <<"nursery", "workshop", "canopy", "stable">>

ZoneArrays == {"nursery", "workshop", "canopy", "stable"}

\* the five reviewers in the order of the AGENTS registry
AGENTS == <<"ts", "ag", "pl", "ca", "px">>

AgentIds == {AGENTS[k] : k \in 1..Len(AGENTS)}

Names == {"Toggle"}

\* `COMP-${String(n).padStart(3, '0')}`
CompId(n) ==
    IF n < 10 THEN "COMP-00" \o ToString(n)
    ELSE IF n < 100 THEN "COMP-0" \o ToString(n)
    ELSE "COMP-" \o ToString(n)

\* String.prototype.toLowerCase on the strings the model uses
toLowerCase(s) ==
    CASE s = "Toggle" -> "toggle"
      [] s = "TOGGLE" -> "toggle"
      [] s = "Card" -> "card"
      [] s = "COMP-001" -> "comp-001"
      [] s = "COMP-002" -> "comp-002"
      [] s = "COMP-003" -> "comp-003"
      [] s = "COMP-004" -> "comp-004"
      [] OTHER -> s

\* arguments a caller may pass as componentId
IdArgs == {CompId(n) : n \in 1..MaxComponents}

FindArgs == IdArgs \cup {"toggle", "ghost"}

\* state[zone].findIndex(c => c.id === componentId): the first index whose
\* element has the id, 0 for -1
IndexOfId(s, id) ==
    IF \E k \in 1..Len(s) : s[k].id = id
    THEN CHOOSE k \in 1..Len(s) : s[k].id = id /\ \A j \in 1..(k - 1) : s[j].id # id
    ELSE 0

\* Array.prototype.splice(idx, 1): the array without its idx-th element
RemoveAt(s, idx) == SubSeq(s, 1, idx - 1) \o SubSeq(s, idx + 1, Len(s))

NoReason == [kind |-> "none", agents |-> <<>>, approved |-> 0, total |-> 0, needed |-> 0]

\* the value of a field that was never set (component.lastZoneVerdict)
NoVerdict == [passed |-> FALSE, reason |-> NoReason]

NoComponent ==
    [id |-> "", name |-> "", zone |-> "", maturity |-> "", movedAt |-> 0,
     agentReviews |-> <<>>, shielded |-> FALSE, lastZoneVerdict |-> NoVerdict]

IdleReview ==
    [pc |-> "idle", component |-> NoComponent, zone |-> "", i |-> 0,
     agentReviews |-> <<>>]

NoReturn ==
    [op |-> "none", kind |-> "none", arg |-> "", success |-> FALSE, from |-> "",
     to |-> "", component |-> NoComponent, agentReviews |-> <<>>,
     zoneVerdict |-> NoVerdict, overallVerdict |-> "", zone |-> "",
     decisionId |-> <<>>]

----------------------------------------------------------------------------
(* pipeline.mjs *)

\* loadPipeline() when the pipeline file does not exist
EmptyPipeline ==
    [nursery |-> <<>>, workshop |-> <<>>, canopy |-> <<>>, stable |-> <<>>, nextId |-> 1]

\* the activity log rewritten with the new line alone
logActivity_rewrite(log, action, componentId, componentName, actor) ==
    <<[action |-> action, componentId |-> componentId,
       componentName |-> componentName, actor |-> actor]>>

\* logActivity: appends one line {action, componentId, componentName, actor}
\* to the activity log (the entry's timestamp and detail text are left out).
\* The append is under existsSync(ACTIVITY_LOG); the file exists here, as the
\* repository ships it (plans/MVP_PLAN.md: "Exists but empty") and nothing
\* removes it.
logActivity(log, action, componentId, componentName, actor) ==
    Append(log, [action |-> action, componentId |-> componentId,
                 componentName |-> componentName, actor |-> actor])

\* the activity log has room for one more line within the bound, the line of
\* a review cycle in flight counted
LogRoom == budget.lines > (IF rv.pc = "awaiting" THEN 1 ELSE 0)

\* one activity line was appended
Spend == [budget EXCEPT !.lines = @ - 1]

\* findComponent: first zone in order holding a component whose id equals the
\* argument or whose name equals it ignoring case; "" when there is none
FindMatch(arg, c) == c.id = arg \/ toLowerCase(c.name) = toLowerCase(arg)

\* state[zone].find(...): the first index whose element matches, 0 for none
IndexOfMatch(s, arg) ==
    IF \E k \in 1..Len(s) : FindMatch(arg, s[k])
    THEN CHOOSE k \in 1..Len(s) :
             FindMatch(arg, s[k]) /\ \A j \in 1..(k - 1) : ~FindMatch(arg, s[j])
    ELSE 0

FoundZones(state, arg) ==
    {k \in 1..Len(zoneOrder) : IndexOfMatch(state[zoneOrder[k]], arg) # 0}

findComponent(state, arg) ==
    IF FoundZones(state, arg) = {}
    THEN [found |-> FALSE, component |-> NoComponent, zone |-> ""]
    ELSE LET k == CHOOSE k \in FoundZones(state, arg) :
                     \A j \in FoundZones(state, arg) : k <= j
             z == zoneOrder[k]
         IN [found |-> TRUE,
             component |-> state[z][IndexOfMatch(state[z], arg)],
             zone |-> z]

\* the name of a component created without one: JSON.stringify leaves the
\* property out and the loaded component has no name
NoName == "undefined"

\* what a call of findComponent comes to: {component, zone}, null, or the
\* TypeError of undefined.toLowerCase()
FindOutcome(threw, found, component, zone) ==
    [threw |-> threw, found |-> found, component |-> component, zone |-> zone]

\* state[zone].find(c => c.id === componentId ||
\*     c.name.toLowerCase() === componentId.toLowerCase()) from index k on:
\* the right operand is evaluated for every element whose id differs
RECURSIVE FindIn(_, _, _, _)
FindIn(s, k, zone, arg) ==
    IF k > Len(s) THEN FindOutcome(FALSE, FALSE, NoComponent, "")
    ELSE IF s[k].id = arg THEN FindOutcome(FALSE, TRUE, s[k], zone)
    ELSE IF s[k].name = NoName THEN FindOutcome(TRUE, FALSE, NoComponent, "")
    ELSE IF toLowerCase(s[k].name) = toLowerCase(arg)
    THEN FindOutcome(FALSE, TRUE, s[k], zone)
    ELSE FindIn(s, k + 1, zone, arg)

\* findComponent(componentId) as it runs: the zones in order from the z-th,
\* return null after the last
RECURSIVE FindFrom(_, _, _)
FindFrom(state, z, arg) ==
    IF z > Len(zoneOrder) THEN FindOutcome(FALSE, FALSE, NoComponent, "")
    ELSE LET r == FindIn(state[zoneOrder[z]], 1, zoneOrder[z], arg)
         IN IF r.threw \/ r.found THEN r ELSE FindFrom(state, z + 1, arg)

\* a caller evaluates findComponent(arg) on the pipeline file as it stands
FindEvaluates(arg) ==
    /\ rin' = arg
    /\ rout' = [evaluated |-> TRUE, result |-> FindFrom(pipeline, 1, arg)]
    /\ UNCHANGED <<pipeline, activityLog, decisions, clock, rv, apiCalls, budget, ret,
                   files, changes, chat>>

\* createComponent reading state.nextId without incrementing it
createComponent_noIncrement(name) ==
    /\ pipeline.nextId <= MaxComponents
    /\ LogRoom
    /\ LET component ==
               [id |-> CompId(pipeline.nextId), name |-> name, zone |-> "nursery",
                maturity |-> "draft", movedAt |-> clock, agentReviews |-> <<>>,
                shielded |-> FALSE, lastZoneVerdict |-> NoVerdict]
       IN /\ pipeline' = [pipeline EXCEPT !.nursery = Append(@, component)]
          /\ activityLog' = logActivity(activityLog, "submitted", component.id, name,
                                        "gardener")
          /\ ret' = [NoReturn EXCEPT !.op = "create", !.kind = "return", !.arg = name,
                                     !.success = TRUE, !.component = component]
    /\ budget' = Spend
    /\ UNCHANGED <<decisions, clock, rv, apiCalls, rin, rout, files, changes, chat>>

\* createComponent(name, type, description)
createComponent(name) ==
    /\ pipeline.nextId <= MaxComponents
    /\ LogRoom
    /\ LET component ==
               [id |-> CompId(pipeline.nextId), name |-> name, zone |-> "nursery",
                maturity |-> "draft", movedAt |-> clock, agentReviews |-> <<>>,
                shielded |-> FALSE, lastZoneVerdict |-> NoVerdict]
       IN /\ pipeline' = [pipeline EXCEPT !.nextId = @ + 1,
                                          !.nursery = Append(@, component)]
          /\ activityLog' = logActivity(activityLog, "submitted", component.id, name,
                                        "gardener")
          /\ ret' = [NoReturn EXCEPT !.op = "create", !.kind = "return", !.arg = name,
                                     !.success = TRUE, !.component = component]
    /\ budget' = Spend
    /\ UNCHANGED <<decisions, clock, rv, apiCalls, rin, rout, files, changes, chat>>

\* the maturity promoteComponent gives a component entering nextZone
MaturityOf(nextZone) ==
    IF nextZone = "workshop" THEN "candidate"
    ELSE IF nextZone = "canopy" THEN "candidate" ELSE "stable"

\* promoteComponent without `comp.zone = nextZone`
Moved_keepZone(comp, nextZone) ==
    [comp EXCEPT !.maturity = MaturityOf(nextZone), !.movedAt = clock]

\* promoteComponent without `comp.movedAt = new Date()`
Moved_keepTime(comp, nextZone) ==
    [comp EXCEPT !.zone = nextZone, !.maturity = MaturityOf(nextZone)]

\* promoteComponent's update of the component it moves
Moved(comp, nextZone) ==
    [comp EXCEPT !.zone = nextZone, !.maturity = MaturityOf(nextZone), !.movedAt = clock]

\* the zones promoteComponent scans: zoneOrder[i] for i < zoneOrder.length - 1
PromoteFrom(state, componentId) ==
    {k \in 1..(Len(zoneOrder) - 1) :
        IndexOfId(state[zoneOrder[k]], componentId) # 0}

\* promoteComponent writing an activity line for a failed promotion too
promoteComponent_logFailure(componentId) ==
    /\ LogRoom
    /\ IF PromoteFrom(pipeline, componentId) = {}
       THEN /\ ret' = [NoReturn EXCEPT !.op = "promote", !.kind = "return",
                                       !.arg = componentId, !.success = FALSE]
            /\ activityLog' = logActivity(activityLog, "promoted", componentId, "",
                                          "gardener")
            /\ budget' = Spend
            /\ UNCHANGED pipeline
       ELSE LET k == CHOOSE k \in PromoteFrom(pipeline, componentId) :
                        \A j \in PromoteFrom(pipeline, componentId) : k <= j
                zone == zoneOrder[k]
                nextZone == zoneOrder[k + 1]
                idx == IndexOfId(pipeline[zone], componentId)
                comp == Moved(pipeline[zone][idx], nextZone)
            IN /\ pipeline' = [pipeline EXCEPT ![zone] = RemoveAt(@, idx),
                                               ![nextZone] = Append(@, comp)]
               /\ activityLog' = logActivity(activityLog, "promoted", comp.id, comp.name,
                                             "gardener")
               /\ ret' = [NoReturn EXCEPT !.op = "promote", !.kind = "return",
                                          !.arg = componentId, !.success = TRUE,
                                          !.from = zone, !.to = nextZone,
                                          !.component = comp]
               /\ budget' = Spend
    /\ UNCHANGED <<decisions, clock, rv, apiCalls, rin, rout, files, changes, chat>>

\* promoteComponent(componentId)
promoteComponent(componentId) ==
    /\ PromoteFrom(pipeline, componentId) # {} => LogRoom
    /\ IF PromoteFrom(pipeline, componentId) = {}
       THEN /\ ret' = [NoReturn EXCEPT !.op = "promote", !.kind = "return",
                                       !.arg = componentId, !.success = FALSE]
            /\ UNCHANGED <<pipeline, activityLog, budget>>
       ELSE LET k == CHOOSE k \in PromoteFrom(pipeline, componentId) :
                        \A j \in PromoteFrom(pipeline, componentId) : k <= j
                zone == zoneOrder[k]
                nextZone == zoneOrder[k + 1]
                idx == IndexOfId(pipeline[zone], componentId)
                comp == Moved(pipeline[zone][idx], nextZone)
            IN /\ pipeline' = [pipeline EXCEPT ![zone] = RemoveAt(@, idx),
                                               ![nextZone] = Append(@, comp)]
               /\ activityLog' = logActivity(activityLog, "promoted", comp.id, comp.name,
                                             "gardener")
               /\ ret' = [NoReturn EXCEPT !.op = "promote", !.kind = "return",
                                          !.arg = componentId, !.success = TRUE,
                                          !.from = zone, !.to = nextZone,
                                          !.component = comp]
               /\ budget' = Spend
    /\ UNCHANGED <<decisions, clock, rv, apiCalls, rin, rout, files, changes, chat>>

\* seedVaultComponent scanning stable as well
VaultFrom_all(state, componentId) ==
    {k \in 1..4 : IndexOfId(state[zoneOrder[k]], componentId) # 0}

\* the zones seedVaultComponent scans: nursery, workshop, canopy
VaultFrom(state, componentId) ==
    {k \in 1..3 : IndexOfId(state[zoneOrder[k]], componentId) # 0}

\* seedVaultComponent without its logActivity call
seedVaultComponent_noLog(componentId) ==
    /\ VaultFrom(pipeline, componentId) # {} => LogRoom
    /\ IF VaultFrom(pipeline, componentId) = {}
       THEN /\ ret' = [NoReturn EXCEPT !.op = "archive", !.kind = "return",
                                       !.arg = componentId, !.success = FALSE]
            /\ UNCHANGED <<pipeline, activityLog, budget>>
       ELSE LET k == CHOOSE k \in VaultFrom(pipeline, componentId) :
                        \A j \in VaultFrom(pipeline, componentId) : k <= j
                zone == zoneOrder[k]
                idx == IndexOfId(pipeline[zone], componentId)
                comp == pipeline[zone][idx]
            IN /\ pipeline' = [pipeline EXCEPT ![zone] = RemoveAt(@, idx)]
               /\ ret' = [NoReturn EXCEPT !.op = "archive", !.kind = "return",
                                          !.arg = componentId, !.success = TRUE,
                                          !.from = zone, !.component = comp]
               /\ UNCHANGED <<activityLog, budget>>
    /\ UNCHANGED <<decisions, clock, rv, apiCalls, rin, rout, files, changes, chat>>

\* seedVaultComponent(componentId, reason)
seedVaultComponent(componentId) ==
    /\ VaultFrom(pipeline, componentId) # {} => LogRoom
    /\ IF VaultFrom(pipeline, componentId) = {}
       THEN /\ ret' = [NoReturn EXCEPT !.op = "archive", !.kind = "return",
                                       !.arg = componentId, !.success = FALSE]
            /\ UNCHANGED <<pipeline, activityLog, budget>>
       ELSE LET k == CHOOSE k \in VaultFrom(pipeline, componentId) :
                        \A j \in VaultFrom(pipeline, componentId) : k <= j
                zone == zoneOrder[k]
                idx == IndexOfId(pipeline[zone], componentId)
                comp == pipeline[zone][idx]
            IN /\ pipeline' = [pipeline EXCEPT ![zone] = RemoveAt(@, idx)]
               /\ activityLog' = logActivity(activityLog, "seed-vaulted", comp.id,
                                             comp.name, "gardener")
               /\ ret' = [NoReturn EXCEPT !.op = "archive", !.kind = "return",
                                          !.arg = componentId, !.success = TRUE,
                                          !.from = zone, !.component = comp]
               /\ budget' = Spend
    /\ UNCHANGED <<decisions, clock, rv, apiCalls, rin, rout, files, changes, chat>>

\* time passes between two readings of new Date()
Tick ==
    /\ clock < MaxClock
    /\ clock' = clock + 1
    /\ UNCHANGED <<pipeline, activityLog, decisions, rv, apiCalls, budget, ret, rin, rout, files, changes, chat>>

----------------------------------------------------------------------------
(* zone-rules.mjs *)

\* ZONE_RULES with canopy given the workshop thresholds
ZONE_RULES_canopyMajority ==
    [nursery  |-> [allowReject |-> FALSE, majority |-> FALSE, unanimous |-> FALSE, agVeto |-> FALSE],
     workshop |-> [allowReject |-> TRUE,  majority |-> TRUE,  unanimous |-> FALSE, agVeto |-> FALSE],
     canopy   |-> [allowReject |-> TRUE,  majority |-> TRUE,  unanimous |-> FALSE, agVeto |-> FALSE]]

\* ZONE_RULES with the veto switched on in nursery
ZONE_RULES_nurseryVeto ==
    [nursery  |-> [allowReject |-> FALSE, majority |-> FALSE, unanimous |-> FALSE, agVeto |-> TRUE],
     workshop |-> [allowReject |-> TRUE,  majority |-> TRUE,  unanimous |-> FALSE, agVeto |-> FALSE],
     canopy   |-> [allowReject |-> TRUE,  majority |-> FALSE, unanimous |-> TRUE,  agVeto |-> TRUE]]

\* ZONE_RULES: the rule set of each configured zone
ZONE_RULES ==
    [nursery  |-> [allowReject |-> FALSE, majority |-> FALSE, unanimous |-> FALSE, agVeto |-> FALSE],
     workshop |-> [allowReject |-> TRUE,  majority |-> TRUE,  unanimous |-> FALSE, agVeto |-> FALSE],
     canopy   |-> [allowReject |-> TRUE,  majority |-> FALSE, unanimous |-> TRUE,  agVeto |-> TRUE]]

\* names every object inherits from Object.prototype: ZONE_RULES[name] is a
\* truthy value none of whose rule flags is set
InheritedNames == {"constructor"}

\* ZONE_RULES[zone]: own property, inherited member, or undefined
RulesOf(zone) ==
    IF zone \in DOMAIN ZONE_RULES
    THEN [defined |-> TRUE, rules |-> ZONE_RULES[zone]]
    ELSE IF zone \in InheritedNames
    THEN [defined |-> TRUE,
          rules |-> [allowReject |-> FALSE, majority |-> FALSE, unanimous |-> FALSE,
                     agVeto |-> FALSE]]
    ELSE [defined |-> FALSE,
          rules |-> [allowReject |-> FALSE, majority |-> FALSE, unanimous |-> FALSE,
                     agVeto |-> FALSE]]

\* the agent ids of a list of {agent, verdict} entries, in order
AgentsOf(entries) == [k \in 1..Len(entries) |-> entries[k].agent]

Reason(kind, agents, approved, total, needed) ==
    [kind |-> kind, agents |-> agents, approved |-> approved, total |-> total,
     needed |-> needed]

\* Math.floor(n / 2)
CeilHalf_floor(n) == n \div 2

\* Math.ceil(n / 2)
CeilHalf(n) == (n + 1) \div 2

\* checkZoneApproval counting as missing only the agents that answered
\* needs-work or vetoed
checkZoneApproval_answeredOnly(zone, verdicts) ==
    LET lookup == RulesOf(zone)
        rules == lookup.rules
        agents == AgentsOf(verdicts)
        approved == AgentsOf(SelectSeq(verdicts, LAMBDA e : e.verdict = "approved"))
        vetoed == AgentsOf(SelectSeq(verdicts, LAMBDA e : e.verdict = "vetoed"))
        missing == AgentsOf(SelectSeq(verdicts, LAMBDA e : e.verdict \in {"needs-work", "vetoed"}))
        needed == CeilHalf(Len(agents))
    IN IF ~lookup.defined
       THEN [passed |-> FALSE, reason |-> Reason("unknown-zone", <<>>, 0, 0, 0)]
       ELSE IF rules.agVeto /\ \E k \in 1..Len(vetoed) : vetoed[k] = "ag"
       THEN [passed |-> FALSE, reason |-> Reason("ag-veto", <<>>, 0, 0, 0)]
       ELSE IF ~rules.allowReject
       THEN [passed |-> TRUE, reason |-> Reason("nursery-accepted", <<>>, 0, 0, 0)]
       ELSE IF rules.unanimous
       THEN IF Len(missing) > 0
            THEN [passed |-> FALSE, reason |-> Reason("unanimous-missing", missing, 0, 0, 0)]
            ELSE [passed |-> TRUE, reason |-> Reason("unanimous-achieved", <<>>, 0, 0, 0)]
       ELSE IF rules.majority
       THEN IF Len(approved) >= needed
            THEN [passed |-> TRUE,
                  reason |-> Reason("majority-achieved", <<>>, Len(approved), Len(agents), 0)]
            ELSE [passed |-> FALSE,
                  reason |-> Reason("majority-required", <<>>, Len(approved), Len(agents), needed)]
       ELSE [passed |-> TRUE, reason |-> Reason("no-threshold", <<>>, 0, 0, 0)]

\* checkZoneApproval(zone, verdicts); verdicts is the agentId -> verdict object,
\* as the list of its entries in key order
checkZoneApproval(zone, verdicts) ==
    LET lookup == RulesOf(zone)
        rules == lookup.rules
        agents == AgentsOf(verdicts)
        approved == AgentsOf(SelectSeq(verdicts, LAMBDA e : e.verdict = "approved"))
        vetoed == AgentsOf(SelectSeq(verdicts, LAMBDA e : e.verdict = "vetoed"))
        missing == AgentsOf(SelectSeq(verdicts, LAMBDA e : e.verdict # "approved"))
        needed == CeilHalf(Len(agents))
    IN IF ~lookup.defined
       THEN [passed |-> FALSE, reason |-> Reason("unknown-zone", <<>>, 0, 0, 0)]
       ELSE IF rules.agVeto /\ \E k \in 1..Len(vetoed) : vetoed[k] = "ag"
       THEN [passed |-> FALSE, reason |-> Reason("ag-veto", <<>>, 0, 0, 0)]
       ELSE IF ~rules.allowReject
       THEN [passed |-> TRUE, reason |-> Reason("nursery-accepted", <<>>, 0, 0, 0)]
       ELSE IF rules.unanimous
       THEN IF Len(missing) > 0
            THEN [passed |-> FALSE, reason |-> Reason("unanimous-missing", missing, 0, 0, 0)]
            ELSE [passed |-> TRUE, reason |-> Reason("unanimous-achieved", <<>>, 0, 0, 0)]
       ELSE IF rules.majority
       THEN IF Len(approved) >= needed
            THEN [passed |-> TRUE,
                  reason |-> Reason("majority-achieved", <<>>, Len(approved), Len(agents), 0)]
            ELSE [passed |-> FALSE,
                  reason |-> Reason("majority-required", <<>>, Len(approved), Len(agents), needed)]
       ELSE [passed |-> TRUE, reason |-> Reason("no-threshold", <<>>, 0, 0, 0)]

----------------------------------------------------------------------------
(* agent-runner.mjs *)

LegalVerdicts == {"approved", "needs-work", "vetoed"}

\* Math.max(0, Math.min(100, score))
Clamp(score) == IF score < 0 THEN 0 ELSE IF score > 100 THEN 100 ELSE score

\* raw.slice(0, 200): the length of the prefix of the payload that is quoted
PreviewLen(length) == IF length < 200 THEN length ELSE 200

\* parseAgentResponse answering a payload that is not JSON with the default score
parseAgentResponse_defaultOnFailure(raw) ==
    IF raw.json /\ raw.value # "null"
    THEN [verdict |-> IF raw.verdict \in LegalVerdicts THEN raw.verdict ELSE "needs-work",
          score |-> IF raw.numericScore THEN Clamp(raw.score) ELSE 50,
          action |-> "", parseError |-> FALSE, preview |-> 0]
    ELSE [verdict |-> "needs-work", score |-> 50, action |-> "parse-failed",
          parseError |-> TRUE, preview |-> PreviewLen(raw.length)]

\* parseAgentResponse(raw). raw describes the text of the completion after trim
\* and fence stripping: json says whether JSON.parse accepts it, value what it
\* decodes to ("object", "scalar" for a number, string, boolean or array,
\* "null"), verdict and score the fields of the decoded value ("" and
\* numericScore = FALSE when absent), length the length of the text. Reading
\* a field of null throws inside the try block, so null takes the catch path.
\* parseError says that analysis starts with "Parse error:", preview is the
\* length of the quoted prefix of the payload.
parseAgentResponse(raw) ==
    IF raw.json /\ raw.value # "null"
    THEN [verdict |-> IF raw.verdict \in LegalVerdicts THEN raw.verdict ELSE "needs-work",
          score |-> IF raw.numericScore THEN Clamp(raw.score) ELSE 50,
          action |-> "", parseError |-> FALSE, preview |-> 0]
    ELSE [verdict |-> "needs-work", score |-> 0, action |-> "parse-failed",
          parseError |-> TRUE, preview |-> PreviewLen(raw.length)]

\* runAgentReview: the completion call either throws (no key, transport error)
\* or returns a text that parseAgentResponse decodes
runAgentReview(resp) ==
    IF resp.ok
    THEN parseAgentResponse(resp.raw)
    ELSE [verdict |-> "api-unavailable", score |-> 0, action |-> "api-unavailable",
          parseError |-> FALSE, preview |-> 0]

Raw(json, value, verdict, numericScore, score, length) ==
    [json |-> json, value |-> value, verdict |-> verdict, numericScore |-> numericScore,
     score |-> score, length |-> length]

\* the completion call failed
Unavailable == [ok |-> FALSE, raw |-> Raw(FALSE, "", "", FALSE, 0, 0)]

\* the completion call returned text that is not JSON
Garbage == [ok |-> TRUE, raw |-> Raw(FALSE, "", "", FALSE, 0, 40)]

Answer(verdict, score) == [ok |-> TRUE, raw |-> Raw(TRUE, "object", verdict, TRUE, score, 40)]

\* what the completion service does in the pipeline specification
CoreResponses == {Unavailable, Answer("approved", 90)}

\* what the completion service does in the specification of one review cycle
CycleResponses ==
    {Unavailable, Garbage, Answer("approved", 90), Answer("needs-work", 60),
     Answer("vetoed", 10)}

----------------------------------------------------------------------------
(* orchestrator.mjs *)

\* runGovernanceReview(componentId, {zone}) up to its first await: resolve the
\* component, throw when there is none, otherwise call the first agent
StartReview(componentId, zoneOption) ==
    /\ rv.pc = "idle"
    /\ LET found == findComponent(pipeline, componentId)
       IN IF ~found.found
          THEN /\ ret' = [NoReturn EXCEPT !.op = "review", !.kind = "throw",
                                          !.arg = componentId]
               /\ UNCHANGED <<rv, apiCalls, budget>>
          ELSE /\ budget.reviews > 0
               /\ LogRoom
               /\ rv' = [pc |-> "awaiting", component |-> found.component,
                         zone |-> IF zoneOption = "" THEN found.component.zone
                                  ELSE zoneOption,
                         i |-> 1, agentReviews |-> <<>>]
               /\ apiCalls' = Append(apiCalls, AGENTS[1])
               /\ budget' = [budget EXCEPT !.reviews = @ - 1]
               /\ ret' = ret
    /\ UNCHANGED <<pipeline, activityLog, decisions, clock, rin, rout, files, changes, chat>>

\* step 6b storing the verdicts without the scores
Snapshot_verdictOnly(agentReviews) ==
    [k \in 1..Len(agentReviews) |->
        [agent |-> agentReviews[k].agent, verdict |-> agentReviews[k].verdict,
         score |-> 0, action |-> agentReviews[k].action]]

\* step 6b: the compact per-agent snapshot written to the component
Snapshot(agentReviews) ==
    [k \in 1..Len(agentReviews) |->
        [agent |-> agentReviews[k].agent, verdict |-> agentReviews[k].verdict,
         score |-> agentReviews[k].score, action |-> agentReviews[k].action]]

\* the zone arrays of a freshly loaded pipeline that hold component id
HoldingZones(state, id) ==
    {k \in 1..Len(zoneOrder) :
        IndexOfId(state[zoneOrder[k]], id) # 0}

\* step 6b writing back the component object loaded in step 1 in the place
\* of the reloaded entry
PersistReviews_staleComponent(state, id, agentReviews, zoneVerdict) ==
    IF HoldingZones(state, id) = {}
    THEN state
    ELSE LET k == CHOOSE k \in HoldingZones(state, id) :
                     \A j \in HoldingZones(state, id) : k <= j
             z == zoneOrder[k]
             idx == IndexOfId(state[z], id)
         IN [state EXCEPT ![z][idx] =
                [rv.component EXCEPT !.agentReviews = Snapshot(agentReviews),
                                     !.lastZoneVerdict = zoneVerdict]]

\* step 6b: reload the pipeline, store snapshot and zone verdict on the first
\* entry with the component's id, save
PersistReviews(state, id, agentReviews, zoneVerdict) ==
    IF HoldingZones(state, id) = {}
    THEN state
    ELSE LET k == CHOOSE k \in HoldingZones(state, id) :
                     \A j \in HoldingZones(state, id) : k <= j
             z == zoneOrder[k]
             idx == IndexOfId(state[z], id)
         IN [state EXCEPT ![z][idx].agentReviews = Snapshot(agentReviews),
                          ![z][idx].lastZoneVerdict = zoneVerdict]

\* step 6: verdictMap[agentId] = review.verdict
VerdictMap(agentReviews) ==
    [k \in 1..Len(agentReviews) |->
        [agent |-> agentReviews[k].agent, verdict |-> agentReviews[k].verdict]]

\* `DEC-${zone}-${name}-${ts}`, kept as its four parts; ts is the clock
generateDecisionId(zone, componentName, now) ==
    <<"DEC", zone, toLowerCase(componentName), now>>

\* appendJSONL: appendFileSync inside try/catch; when the write throws, the
\* catch prints to the console and the call returns normally, the ledger as
\* it was
appendJSONL(ledger, entry, writable) ==
    IF writable THEN Append(ledger, entry) ELSE ledger

\* step 7 recording the component's own zone instead of the reviewed zone
DecisionEntry_componentZone(component, zone, agentReviews, zoneVerdict) ==
    [zone |-> component.zone, componentId |-> toLowerCase(component.name),
     componentPipelineId |-> component.id,
     agents |-> [k \in 1..Len(agentReviews) |->
                    [agent |-> agentReviews[k].agent,
                     verdict |-> agentReviews[k].verdict,
                     score |-> agentReviews[k].score]],
     zoneVerdict |-> zoneVerdict]

\* step 7: the decision record of the cycle
DecisionEntry(component, zone, agentReviews, zoneVerdict) ==
    [zone |-> zone, componentId |-> toLowerCase(component.name),
     componentPipelineId |-> component.id,
     agents |-> [k \in 1..Len(agentReviews) |->
                    [agent |-> agentReviews[k].agent,
                     verdict |-> agentReviews[k].verdict,
                     score |-> agentReviews[k].score]],
     zoneVerdict |-> zoneVerdict]

\* runGovernanceReview when runAgentReview lets the failure of the completion
\* call escape: the cycle throws at the first unavailable agent
AgentReturns_abortOnFailure(resp) ==
    /\ rv.pc = "awaiting"
    /\ LET review == runAgentReview(resp)
           agentReviews == Append(rv.agentReviews,
                                  [agent |-> AGENTS[rv.i], verdict |-> review.verdict,
                                   score |-> review.score, action |-> review.action])
       IN IF ~resp.ok
          THEN /\ rv' = IdleReview
               /\ ret' = [NoReturn EXCEPT !.op = "review", !.kind = "throw",
                                          !.arg = rv.component.id]
               /\ UNCHANGED <<pipeline, activityLog, decisions, apiCalls, budget>>
          ELSE IF rv.i < Len(AGENTS)
          THEN /\ rv' = [rv EXCEPT !.i = @ + 1, !.agentReviews = agentReviews]
               /\ apiCalls' = Append(apiCalls, AGENTS[rv.i + 1])
               /\ UNCHANGED <<pipeline, activityLog, decisions, ret, budget>>
          ELSE LET zoneVerdict == checkZoneApproval(rv.zone, VerdictMap(agentReviews))
               IN /\ pipeline' = PersistReviews(pipeline, rv.component.id, agentReviews,
                                                zoneVerdict)
                  /\ decisions' = Append(decisions,
                                         DecisionEntry(rv.component, rv.zone,
                                                       agentReviews, zoneVerdict))
                  /\ activityLog' = logActivity(activityLog, "governance-review",
                                                rv.component.id, rv.component.name,
                                                "orchestrator")
                  /\ ret' = [NoReturn EXCEPT
                                !.op = "review", !.kind = "return",
                                !.success = TRUE,
                                !.decisionId = generateDecisionId(rv.zone,
                                                                  rv.component.name,
                                                                  clock),
                                !.component = rv.component, !.zone = rv.zone,
                                !.agentReviews = agentReviews,
                                !.zoneVerdict = zoneVerdict,
                                !.overallVerdict = IF zoneVerdict.passed THEN "approved"
                                                   ELSE "needs-work"]
                  /\ rv' = IdleReview
                  /\ budget' = Spend
                  /\ UNCHANGED apiCalls
    /\ UNCHANGED <<clock, rin, rout, files, changes, chat>>

\* runGovernanceReview calling an agent a second time when its call failed
AgentReturns_retryFailed(resp) ==
    /\ rv.pc = "awaiting"
    /\ LET review == runAgentReview(resp)
           agentReviews == Append(rv.agentReviews,
                                  [agent |-> AGENTS[rv.i], verdict |-> review.verdict,
                                   score |-> review.score, action |-> review.action])
       IN IF ~resp.ok /\ Len(apiCalls) = rv.i
          THEN /\ apiCalls' = Append(apiCalls, AGENTS[rv.i])
               /\ UNCHANGED <<pipeline, activityLog, decisions, ret, budget, rv>>
          ELSE IF rv.i < Len(AGENTS)
          THEN /\ rv' = [rv EXCEPT !.i = @ + 1, !.agentReviews = agentReviews]
               /\ apiCalls' = Append(apiCalls, AGENTS[rv.i + 1])
               /\ UNCHANGED <<pipeline, activityLog, decisions, ret, budget>>
          ELSE LET zoneVerdict == checkZoneApproval(rv.zone, VerdictMap(agentReviews))
               IN /\ pipeline' = PersistReviews(pipeline, rv.component.id, agentReviews,
                                                zoneVerdict)
                  /\ decisions' = Append(decisions,
                                         DecisionEntry(rv.component, rv.zone,
                                                       agentReviews, zoneVerdict))
                  /\ activityLog' = logActivity(activityLog, "governance-review",
                                                rv.component.id, rv.component.name,
                                                "orchestrator")
                  /\ ret' = [NoReturn EXCEPT
                                !.op = "review", !.kind = "return",
                                !.success = TRUE,
                                !.decisionId = generateDecisionId(rv.zone,
                                                                  rv.component.name,
                                                                  clock),
                                !.component = rv.component, !.zone = rv.zone,
                                !.agentReviews = agentReviews,
                                !.zoneVerdict = zoneVerdict,
                                !.overallVerdict = IF zoneVerdict.passed THEN "approved"
                                                   ELSE "needs-work"]
                  /\ rv' = IdleReview
                  /\ budget' = Spend
                  /\ UNCHANGED apiCalls
    /\ UNCHANGED <<clock, rin, rout, files, changes, chat>>

\* runGovernanceReview from the return of the awaited runAgentReview to the
\* next await (the next agent's call) or, after the last agent, to its return
AgentReturns(resp) ==
    /\ rv.pc = "awaiting"
    /\ LET review == runAgentReview(resp)
           agentReviews == Append(rv.agentReviews,
                                  [agent |-> AGENTS[rv.i], verdict |-> review.verdict,
                                   score |-> review.score, action |-> review.action])
       IN IF rv.i < Len(AGENTS)
          THEN /\ rv' = [rv EXCEPT !.i = @ + 1, !.agentReviews = agentReviews]
               /\ apiCalls' = Append(apiCalls, AGENTS[rv.i + 1])
               /\ UNCHANGED <<pipeline, activityLog, decisions, ret, budget>>
          ELSE LET zoneVerdict == checkZoneApproval(rv.zone, VerdictMap(agentReviews))
               IN /\ pipeline' = PersistReviews(pipeline, rv.component.id, agentReviews,
                                                zoneVerdict)
                  /\ decisions' = Append(decisions,
                                         DecisionEntry(rv.component, rv.zone,
                                                       agentReviews, zoneVerdict))
                  /\ activityLog' = logActivity(activityLog, "governance-review",
                                                rv.component.id, rv.component.name,
                                                "orchestrator")
                  /\ ret' = [NoReturn EXCEPT
                                !.op = "review", !.kind = "return",
                                !.success = TRUE,
                                !.decisionId = generateDecisionId(rv.zone,
                                                                  rv.component.name,
                                                                  clock),
                                !.component = rv.component, !.zone = rv.zone,
                                !.agentReviews = agentReviews,
                                !.zoneVerdict = zoneVerdict,
                                !.overallVerdict = IF zoneVerdict.passed THEN "approved"
                                                   ELSE "needs-work"]
                  /\ rv' = IdleReview
                  /\ budget' = Spend
                  /\ UNCHANGED apiCalls
    /\ UNCHANGED <<clock, rin, rout, files, changes, chat>>

\* runGovernanceReview from the return of the last agent's runAgentReview to
\* its own return, on a disk where the append to decisions.jsonl succeeds
\* (writable) or throws: steps 6 to 9, the decision record going through
\* appendJSONL
ReviewCompletes(resp, writable) ==
    /\ rv.pc = "awaiting"
    /\ rv.i = Len(AGENTS)
    /\ LET review == runAgentReview(resp)
           agentReviews == Append(rv.agentReviews,
                                  [agent |-> AGENTS[rv.i], verdict |-> review.verdict,
                                   score |-> review.score, action |-> review.action])
           zoneVerdict == checkZoneApproval(rv.zone, VerdictMap(agentReviews))
       IN /\ pipeline' = PersistReviews(pipeline, rv.component.id, agentReviews,
                                        zoneVerdict)
          /\ decisions' = appendJSONL(decisions,
                                      DecisionEntry(rv.component, rv.zone,
                                                    agentReviews, zoneVerdict),
                                      writable)
          /\ activityLog' = logActivity(activityLog, "governance-review",
                                        rv.component.id, rv.component.name,
                                        "orchestrator")
          /\ ret' = [NoReturn EXCEPT
                        !.op = "review", !.kind = "return",
                        !.success = TRUE,
                        !.decisionId = generateDecisionId(rv.zone,
                                                          rv.component.name,
                                                          clock),
                        !.component = rv.component, !.zone = rv.zone,
                        !.agentReviews = agentReviews,
                        !.zoneVerdict = zoneVerdict,
                        !.overallVerdict = IF zoneVerdict.passed THEN "approved"
                                           ELSE "needs-work"]
          /\ rv' = IdleReview
          /\ budget' = Spend
    /\ UNCHANGED <<apiCalls, clock, rin, rout, files, changes, chat>>

\* the zone option of a review request: none, or a zone name
ZoneOptions == {"", "nursery", "workshop", "canopy", "stable", "constructor"}

----------------------------------------------------------------------------
(* file-safety.mjs *)

\* A path is {abs, segs}: abs says that the string starts with "/", segs are
\* its segments between slashes.
Path(segs) == [abs |-> FALSE, segs |-> segs]

\* the strings of the model that match [a-z][a-z0-9-]*
KebabNames == {"toggle", "color", "x"}

\* the segments of the model that contain ".."
DotDotNames == {".."}

\* path.normalize on the segments: "." is dropped, ".." removes the segment
\* before it and stays when there is none to remove
RECURSIVE NormalizeOnto(_, _)
NormalizeOnto(done, rest) ==
    IF rest = <<>> THEN done
    ELSE LET seg == Head(rest)
         IN IF seg = "." THEN NormalizeOnto(done, Tail(rest))
            ELSE IF seg = ".." /\ done # <<>> /\ done[Len(done)] # ".."
                 THEN NormalizeOnto(SubSeq(done, 1, Len(done) - 1), Tail(rest))
                 ELSE NormalizeOnto(Append(done, seg), Tail(rest))

normalize(path) == [abs |-> path.abs, segs |-> NormalizeOnto(<<>>, path.segs)]

BLOCKED_PREFIXES == {<<"src", "governance">>, <<"src", "server">>, <<"node_modules">>}

BLOCKED_FILES ==
    {<<"src", "data", "decisions.jsonl">>, <<"src", "data", "activity-log.jsonl">>,
     <<"src", "data", "changes.jsonl">>, <<"src", "data", "pipeline-state.json">>,
     <<"src", "library", "storybook.js">>, <<"src", "library", "storybook.html">>,
     <<"src", "library", "shell.css">>, <<".env">>}

\* normalized.startsWith(prefix), the prefix ending in a slash
StartsWith(segs, prefix) ==
    Len(segs) > Len(prefix) /\ SubSeq(segs, 1, Len(prefix)) = prefix

\* /^src\/components\/([a-z][a-z0-9-]*)\/\1<suffix>$/
ComponentFile(segs, suffix) ==
    /\ Len(segs) = 4
    /\ segs[1] = "src" /\ segs[2] = "components"
    /\ segs[3] \in KebabNames
    /\ segs[4] = segs[3] \o suffix

\* /^src\/tokens\/[a-z][a-z0-9-]*\.tokens\.json$/
TokenFile(segs) ==
    /\ Len(segs) = 3
    /\ segs[1] = "src" /\ segs[2] = "tokens"
    /\ \E stem \in KebabNames : segs[3] = stem \o ".tokens.json"

\* validateWritePath with the blocked files left writable
validateWritePath_noBlockedFiles(relPath, mode) ==
    LET normalized == normalize(relPath).segs
    IN IF (\E k \in 1..Len(normalized) : normalized[k] \in DotDotNames) \/ relPath.abs
       THEN [allowed |-> FALSE, reason |-> "traversal"]
       ELSE IF \E prefix \in BLOCKED_PREFIXES : StartsWith(normalized, prefix)
       THEN [allowed |-> FALSE, reason |-> "protected-prefix"]
       ELSE [allowed |-> TRUE, reason |-> ""]

\* validateWritePath(relPath, mode)
validateWritePath(relPath, mode) ==
    LET normalized == normalize(relPath).segs
    IN IF (\E k \in 1..Len(normalized) : normalized[k] \in DotDotNames) \/ relPath.abs
       THEN [allowed |-> FALSE, reason |-> "traversal"]
       ELSE IF normalized \in BLOCKED_FILES
       THEN [allowed |-> FALSE, reason |-> "protected-file"]
       ELSE IF \E prefix \in BLOCKED_PREFIXES : StartsWith(normalized, prefix)
       THEN [allowed |-> FALSE, reason |-> "protected-prefix"]
       ELSE IF normalized = <<"src", "library", "foundation.css">>
       THEN IF mode = "patch" THEN [allowed |-> TRUE, reason |-> ""]
            ELSE [allowed |-> FALSE, reason |-> "patch-only"]
       ELSE IF ComponentFile(normalized, ".css") THEN [allowed |-> TRUE, reason |-> ""]
       ELSE IF ComponentFile(normalized, ".spec.json") THEN [allowed |-> TRUE, reason |-> ""]
       ELSE IF TokenFile(normalized) THEN [allowed |-> TRUE, reason |-> ""]
       ELSE IF normalized = <<"src", "data", "wiki.json">> THEN [allowed |-> TRUE, reason |-> ""]
       ELSE IF normalized = <<"src", "library", "terrarium.css">>
       THEN [allowed |-> TRUE, reason |-> ""]
       ELSE [allowed |-> FALSE, reason |-> "not-in-allowlist"]

----------------------------------------------------------------------------
(* agent-runner.mjs: executeTool *)

\* a field the tool input does not have (for a path: Path(Undefined))
Undefined == <<"undefined">>

\* the files on disk: a set of {path, content}, at most one per path; path is
\* the normalized segment list, content a set of texts (one text for a plain
\* file, the imported component names for terrarium.css, the (key, entry)
\* pairs for wiki.json), each text a sequence of strings
NoFiles == {}

Exists(fs, segs) == \E f \in fs : f.path = segs

ContentOf(fs, segs) == (CHOOSE f \in fs : f.path = segs).content

\* writeFileSync(resolve(projectRoot, relPath), content)
writeFileSync(fs, segs, content) ==
    {f \in fs : f.path # segs} \cup {[path |-> segs, content |-> content]}

\* what a tool works on: the files, the change ledger and the activity log
Disk(fs, chg, log) == [files |-> fs, changes |-> chg, activityLog |-> log]

\* appendChange({file, changeType, ...})
appendChange(chg, segs, changeType) ==
    Append(chg, [file |-> segs, changeType |-> changeType])

\* what a case of executeTool comes to: the JSON it returns or the exception
\* it throws, the disk it leaves, and the storage calls it made, in order
Returned(d, steps, result) == [threw |-> FALSE, result |-> result, disk |-> d, steps |-> steps]

Threw(d, steps) ==
    [threw |-> TRUE, result |-> [error |-> TRUE, reason |-> "exception"], disk |-> d,
     steps |-> steps]

ErrorResult(reason) == [error |-> TRUE, reason |-> reason]

SuccessResult(action) == [error |-> FALSE, reason |-> action]

\* toolInput.name.toLowerCase() on a name given by its segments
LowerName(name) == [k \in 1..Len(name) |-> toLowerCase(name[k])]

\* `src/components/${name}/${name}${suffix}`
ComponentPath(name, suffix) ==
    Path(<<"src", "components">> \o name \o SubSeq(name, 1, Len(name) - 1)
         \o <<name[Len(name)] \o suffix>>)

\* the change record and activity line every file-writing case appends
Recorded(d, fs, segs, changeType, action, componentName) ==
    Disk(fs, appendChange(d.changes, segs, changeType),
         logActivity(d.activityLog, action, "", componentName, "chat-agent"))

\* case 'write_component_css'
write_component_css(input, d) ==
    IF input.name = Undefined THEN Threw(d, <<>>)
    ELSE LET name == LowerName(input.name)
             relPath == ComponentPath(name, ".css")
             check == validateWritePath(relPath, "full")
             segs == normalize(relPath).segs
         IN IF ~check.allowed
            THEN Returned(d, <<"validateWritePath">>, ErrorResult(check.reason))
            ELSE IF input.content = Undefined
            THEN Threw(d, <<"validateWritePath", "mkdirSync">>)
            ELSE Returned(Recorded(d, writeFileSync(d.files, segs, {input.content}), segs,
                                   "css-edit", "file-write", name[Len(name)]),
                          <<"validateWritePath", "mkdirSync", "writeFileSync",
                            "appendChange", "logActivity">>,
                          SuccessResult("wrote"))

\* case 'write_component_spec'
write_component_spec(input, d) ==
    IF input.name = Undefined THEN Threw(d, <<>>)
    ELSE LET name == LowerName(input.name)
             relPath == ComponentPath(name, ".spec.json")
             check == validateWritePath(relPath, "full")
             segs == normalize(relPath).segs
         IN IF input.content = Undefined
            THEN Returned(d, <<>>, ErrorResult("spec-not-object"))
            ELSE IF ~check.allowed
            THEN Returned(d, <<"validateWritePath">>, ErrorResult(check.reason))
            ELSE Returned(Recorded(d, writeFileSync(d.files, segs, {input.content}), segs,
                                   "spec-update", "file-write", name[Len(name)]),
                          <<"validateWritePath", "mkdirSync", "writeFileSync",
                            "appendChange", "logActivity">>,
                          SuccessResult("wrote"))

\* case 'patch_css'; input.content is the text after the replacements,
\* input.found says whether every find string occurs in the file
patch_css(input, d) ==
    IF input.path.segs = Undefined THEN Threw(d, <<"validateWritePath">>)
    ELSE LET check == validateWritePath(input.path, "patch")
             segs == normalize(input.path).segs
         IN IF ~check.allowed
            THEN Returned(d, <<"validateWritePath">>, ErrorResult(check.reason))
            ELSE IF ~Exists(d.files, segs)
            THEN Returned(d, <<"validateWritePath", "existsSync">>,
                          ErrorResult("file-not-found"))
            ELSE IF input.content = Undefined
            THEN Threw(d, <<"validateWritePath", "existsSync", "readFileSync">>)
            ELSE IF ~input.found
            THEN Returned(d, <<"validateWritePath", "existsSync", "readFileSync">>,
                          ErrorResult("find-string-not-found"))
            ELSE Returned(Recorded(d, writeFileSync(d.files, segs, {input.content}), segs,
                                   "css-edit", "file-patch", ""),
                          <<"validateWritePath", "existsSync", "readFileSync",
                            "writeFileSync", "appendChange", "logActivity">>,
                          SuccessResult("patched"))

\* the file names of the model that end in ".tokens.json"
TokensJsonNames == {stem \o ".tokens.json" : stem \in {"color", "Color", "x"}}

\* case 'write_token_file'; input.name is the filename. JSON.stringify of
\* absent tokens is undefined, and undefined + '\n' is the text "undefined\n"
write_token_file(input, d) ==
    IF input.name = Undefined THEN Threw(d, <<>>)
    ELSE IF input.name[Len(input.name)] \notin TokensJsonNames
    THEN Returned(d, <<>>, ErrorResult("not-a-tokens-file"))
    ELSE LET relPath == Path(<<"src", "tokens">> \o input.name)
             check == validateWritePath(relPath, "full")
             segs == normalize(relPath).segs
             text == IF input.content = Undefined THEN {<<"undefined">>}
                     ELSE {input.content}
         IN IF ~check.allowed
            THEN Returned(d, <<"validateWritePath">>, ErrorResult(check.reason))
            ELSE Returned(Recorded(d, writeFileSync(d.files, segs, text), segs,
                                   "token-edit", "file-write", ""),
                          <<"validateWritePath", "existsSync", "writeFileSync",
                            "appendChange", "logActivity">>,
                          SuccessResult(IF Exists(d.files, segs) THEN "updated"
                                        ELSE "created"))

\* case 'update_wiki': addWikiEntry(key, entry) rewrites src/data/wiki.json;
\* input.name is the key, input.content the entry
update_wiki(input, d) ==
    LET segs == <<"src", "data", "wiki.json">>
        key == IF input.name = Undefined THEN "undefined" ELSE input.name[1]
        entry == IF input.content = Undefined THEN "undefined" ELSE input.content[1]
        wiki == IF Exists(d.files, segs) THEN ContentOf(d.files, segs) ELSE {}
    IN Returned(Disk(writeFileSync(d.files, segs,
                                   {e \in wiki : e[1] # key} \cup {<<key, entry>>}),
                     d.changes,
                     logActivity(d.activityLog, "wiki-update", "", "", "chat-agent")),
                <<"addWikiEntry", "logActivity">>,
                SuccessResult("updated"))

\* case 'update_terrarium_css'; the content of terrarium.css is the set of
\* component names it imports
update_terrarium_css(input, d) ==
    IF input.name = Undefined THEN Threw(d, <<>>)
    ELSE LET name == LowerName(input.name)
             relPath == Path(<<"src", "library", "terrarium.css">>)
             check == validateWritePath(relPath, "full")
             segs == relPath.segs
         IN IF ~check.allowed
            THEN Returned(d, <<"validateWritePath">>, ErrorResult(check.reason))
            ELSE IF ~Exists(d.files, segs)
            THEN Threw(d, <<"validateWritePath", "readFileSync">>)
            ELSE LET content == ContentOf(d.files, segs)
                 IN IF input.action = "add"
                    THEN IF name \in content
                         THEN Returned(d, <<"validateWritePath", "readFileSync">>,
                                       SuccessResult("already present"))
                         ELSE Returned(Recorded(d, writeFileSync(d.files, segs,
                                                                 content \cup {name}),
                                                segs, "css-edit", "file-write",
                                                name[Len(name)]),
                                       <<"validateWritePath", "readFileSync",
                                         "writeFileSync", "appendChange", "logActivity">>,
                                       SuccessResult("added"))
                    ELSE IF input.action = "remove"
                    THEN IF name \notin content
                         THEN Returned(d, <<"validateWritePath", "readFileSync">>,
                                       SuccessResult("not present"))
                         ELSE Returned(Recorded(d, writeFileSync(d.files, segs,
                                                                 content \ {name}),
                                                segs, "css-edit", "file-write",
                                                name[Len(name)]),
                                       <<"validateWritePath", "readFileSync",
                                         "writeFileSync", "appendChange", "logActivity">>,
                                       SuccessResult("removed"))
                    ELSE Returned(d, <<"validateWritePath", "readFileSync">>,
                                  ErrorResult("bad-action"))

\* case 'get_activity_log'
get_activity_log(input, d) == Returned(d, <<>>, SuccessResult("entries"))

\* the switch of executeTool
ToolCase(toolName, toolInput, d) ==
    CASE toolName = "get_activity_log" -> get_activity_log(toolInput, d)
      [] toolName = "write_component_css" -> write_component_css(toolInput, d)
      [] toolName = "write_component_spec" -> write_component_spec(toolInput, d)
      [] toolName = "patch_css" -> patch_css(toolInput, d)
      [] toolName = "write_token_file" -> write_token_file(toolInput, d)
      [] toolName = "update_wiki" -> update_wiki(toolInput, d)
      [] toolName = "update_terrarium_css" -> update_terrarium_css(toolInput, d)
      [] OTHER -> Returned(d, <<>>, ErrorResult("unknown-tool"))

\* executeTool without its try/catch
executeTool_noCatch(toolName, toolInput, d) == ToolCase(toolName, toolInput, d)

\* executeTool(toolName, toolInput, deps): the switch inside try/catch; what a
\* case wrote before it threw stays written
executeTool(toolName, toolInput, d) ==
    LET r == ToolCase(toolName, toolInput, d)
    IN IF r.threw THEN Returned(r.disk, r.steps, ErrorResult("exception")) ELSE r

----------------------------------------------------------------------------
(* agent-runner.mjs: agenticChatResponse, and the callbacks POST /api/chat
   of proxy.mjs hands to it *)

MAX_TOOL_TURNS == 5

\* a tool input without any field
NoInput ==
    [name |-> Undefined, path |-> Path(Undefined), content |-> Undefined,
     action |-> "add", found |-> FALSE]

\* content blocks of a completion; a text is the sequence of its 8-character
\* slices, <<>> for no text
TextBlock(text) ==
    [type |-> "text", id |-> 0, name |-> "", input |-> NoInput, text |-> text]

ToolUse(id, call) ==
    [type |-> "tool_use", id |-> id, name |-> call.tool, input |-> call.input,
     text |-> <<>>]

\* client.messages.create: it throws (ok = FALSE) or resolves with
\* {stop_reason, content}
Failure == [ok |-> FALSE, stop |-> "", content |-> <<>>]

ToolUseResponse(blocks) == [ok |-> TRUE, stop |-> "tool_use", content |-> blocks]

TextResponse(text) ==
    [ok |-> TRUE, stop |-> "end_turn",
     content |-> IF text = <<>> THEN <<>> ELSE <<TextBlock(text)>>]

\* the events of the SSE stream
Event(type, id, success, text) ==
    [type |-> type, id |-> id, success |-> success, text |-> text]

\* messages of the history: content is assistantContent, results the
\* tool_result entries of a user message
Message(role, content, results) ==
    [role |-> role, content |-> content, results |-> results]

\* the state of one chat request: where agenticChatResponse stands (pc), its
\* locals turn, response.content with the index of the block in hand,
\* toolResults, loopMessages and finalText; the events written to the
\* response, whether res.end() was called, the writes attempted after it; the
\* completion calls made and the tool-use ids executed so far; the result of
\* the tool call in hand; and how many scripted completions are left
IdleChat ==
    [pc |-> "idle", turn |-> 0, content |-> <<>>, idx |-> 1, toolResults |-> <<>>,
     loopMessages |-> <<>>, finalText |-> <<>>, events |-> <<>>, ended |-> FALSE,
     late |-> 0, calls |-> <<>>, executed |-> <<>>,
     result |-> SuccessResult(""), script |-> 0, disconnected |-> FALSE]

\* sendEvent: res.write; after res.end() nothing reaches the client, and
\* nothing reaches a client that closed the connection
sendEvent(c, e) ==
    IF c.ended THEN [c EXCEPT !.late = @ + 1]
    ELSE IF c.disconnected THEN c
    ELSE [c EXCEPT !.events = Append(@, e)]

\* for (i = 0; i < text.length; i += 8) onToken(text.slice(i, i + 8));
\* finalText += text
RECURSIVE Streamed(_, _)
Streamed(c, text) ==
    IF text = <<>> THEN c
    ELSE Streamed([sendEvent(c, Event("token", 0, TRUE, <<Head(text)>>))
                     EXCEPT !.finalText = Append(@, Head(text))],
                  Tail(text))

\* response.content.find(b => b.type === 'text')?.text
RECURSIVE FirstText(_)
FirstText(content) ==
    IF content = <<>> THEN <<>>
    ELSE IF Head(content).type = "text" THEN Head(content).text
    ELSE FirstText(Tail(content))

\* onDone of POST /api/chat: the done event, then res.end()
onDone(c, fullText) ==
    [sendEvent(c, Event("done", 0, TRUE, fullText))
       EXCEPT !.ended = TRUE, !.pc = "returned"]

\* onError of POST /api/chat: the error event, then res.end()
onError(c) ==
    [sendEvent(c, Event("error", 0, FALSE, <<>>))
       EXCEPT !.ended = TRUE, !.pc = "returned"]

\* the catch of agenticChatResponse when no onError was handed over
Caught_noHandler(c) == onDone(c, <<"Error: ">>)

\* the catch of agenticChatResponse: POST /api/chat hands over onError
Caught(c) == onError(c)

\* the final call one turn early
LastTurn_early(turn) == turn = MAX_TOOL_TURNS - 2

\* no final call at the bound
LastTurn_never(turn) == FALSE

\* turn === MAX_TOOL_TURNS - 1
LastTurn(turn) == turn = MAX_TOOL_TURNS - 1

\* the tool results pushed before the assistant message
Pushed_resultsFirst(messages, content, toolResults) ==
    messages \o <<Message("user", <<>>, toolResults),
                  Message("assistant", content, <<>>)>>

\* loopMessages.push({role: 'assistant', content: assistantContent});
\* loopMessages.push({role: 'user', content: toolResults})
Pushed(messages, content, toolResults) ==
    messages \o <<Message("assistant", content, <<>>),
                  Message("user", <<>>, toolResults)>>

\* a completion call and how it came out
Call(tools, outcome) == [tools |-> tools, outcome |-> outcome]

Outcome(resp) == IF resp.ok THEN resp.stop ELSE "failed"

\* the tool calls the completion service asks for
ReadLog == [tool |-> "get_activity_log", input |-> NoInput]

UnknownTool == [tool |-> "drop_ledgers", input |-> NoInput]

RejectedPath ==
    [tool |-> "patch_css",
     input |-> [NoInput EXCEPT !.path = Path(<<"src", "governance", "orchestrator.mjs">>),
                               !.content = <<"text">>, !.found = TRUE]]

MissingPath == [tool |-> "patch_css", input |-> NoInput]

MissingTokens ==
    [tool |-> "write_token_file",
     input |-> [NoInput EXCEPT !.name = <<"color.tokens.json">>]]

WriteCss ==
    [tool |-> "write_component_css",
     input |-> [NoInput EXCEPT !.name = <<"Toggle">>, !.content = <<"text">>]]

ChatCalls == {ReadLog, UnknownTool, RejectedPath, MissingPath, MissingTokens, WriteCss}

\* block.id: unique within the request
ToolUseId(turn, k) == 10 * (turn + 1) + k

\* the completions every turn may get: a failure, a closing text, one call of
\* a read tool
PlainResponses(turn) ==
    {Failure, TextResponse(<<"Done.">>),
     ToolUseResponse(<<ToolUse(ToolUseId(turn, 1), ReadLog)>>)}

\* the completions the script budget pays for: no text at all, every other
\* tool call, text before a tool call, two tool calls, and stop_reason
\* tool_use without a tool_use block
ScriptedResponses(turn) ==
    {TextResponse(<<>>), ToolUseResponse(<<TextBlock(<<"Checking", " it.">>)>>),
     ToolUseResponse(<<TextBlock(<<"Checking", " it.">>),
                       ToolUse(ToolUseId(turn, 2), WriteCss)>>)}
    \cup {ToolUseResponse(<<ToolUse(ToolUseId(turn, 1), c)>>) : c \in ChatCalls \ {ReadLog}}
    \cup {ToolUseResponse(<<ToolUse(ToolUseId(turn, 1), c1), ToolUse(ToolUseId(turn, 2), c2)>>) :
             c1 \in {ReadLog, UnknownTool}, c2 \in {ReadLog, MissingTokens}}

\* the completions of the final call
FinalResponses == {Failure, TextResponse(<<"Done.">>), TextResponse(<<>>)}

\* a scripted completion uses up one of the script budget
Scripted(c, resp) == resp \in ScriptedResponses(c.turn)

Paid(c, resp) == [c EXCEPT !.script = IF Scripted(c, resp) THEN @ - 1 ELSE @]

\* POST /api/chat reaches agenticChatResponse with the user's message
StartChat ==
    /\ chat.pc = "idle"
    /\ chat' = [chat EXCEPT !.pc = "calling",
                            !.loopMessages = <<Message("user", <<>>, <<>>)>>]
    /\ UNCHANGED <<pipeline, activityLog, decisions, clock, rv, apiCalls, budget, ret,
                   rin, rout, files, changes>>

\* await client.messages.create({..., tools: CHAT_TOOLS}) settles: a throw
\* goes to the catch, stop_reason tool_use opens the block loop, anything else
\* streams the first text block, breaks and calls onDone
CompletionReturns(resp) ==
    /\ chat.pc = "calling"
    /\ Scripted(chat, resp) => chat.script > 0
    /\ LET called == [Paid(chat, resp) EXCEPT !.calls = Append(@, Call(TRUE, Outcome(resp)))]
       IN chat' =
            IF ~resp.ok THEN Caught(called)
            ELSE IF resp.stop = "tool_use"
            THEN [called EXCEPT !.pc = "blocks", !.content = resp.content,
                                !.idx = 1, !.toolResults = <<>>]
            ELSE LET streamed == Streamed(called, FirstText(resp.content))
                 IN onDone(streamed, streamed.finalText)
    /\ UNCHANGED <<pipeline, activityLog, decisions, clock, rv, apiCalls, budget, ret,
                   rin, rout, files, changes>>

\* a text block of assistantContent
BlockText ==
    /\ chat.pc = "blocks"
    /\ chat.idx <= Len(chat.content)
    /\ chat.content[chat.idx].type = "text"
    /\ chat' = [Streamed(chat, chat.content[chat.idx].text) EXCEPT !.idx = @ + 1]
    /\ UNCHANGED <<pipeline, activityLog, decisions, clock, rv, apiCalls, budget, ret,
                   rin, rout, files, changes>>

\* a tool_use block: onToolStart
ToolStart ==
    /\ chat.pc = "blocks"
    /\ chat.idx <= Len(chat.content)
    /\ chat.content[chat.idx].type = "tool_use"
    /\ chat' = [sendEvent(chat, Event("tool_start", chat.content[chat.idx].id, TRUE, <<>>))
                  EXCEPT !.pc = "started"]
    /\ UNCHANGED <<pipeline, activityLog, decisions, clock, rv, apiCalls, budget, ret,
                   rin, rout, files, changes>>

\* await executeTool(block.name, block.input, deps); an exception would reach
\* the catch of agenticChatResponse
ToolExecute ==
    /\ chat.pc = "started"
    /\ LET block == chat.content[chat.idx]
           r == executeTool(block.name, block.input, Disk(files, changes, activityLog))
           ran == [chat EXCEPT !.executed = Append(@, block.id)]
       IN /\ chat' = IF r.threw THEN Caught(ran)
                     ELSE [ran EXCEPT !.pc = "executed", !.result = r.result]
          /\ files' = r.disk.files
          /\ changes' = r.disk.changes
          /\ activityLog' = r.disk.activityLog
    /\ UNCHANGED <<pipeline, decisions, clock, rv, apiCalls, budget, ret, rin, rout>>

\* parsed = JSON.parse(resultStr); success = !parsed.error; onToolResult;
\* toolResults.push({type: 'tool_result', tool_use_id: block.id, content})
ToolResult ==
    /\ chat.pc = "executed"
    /\ LET id == chat.content[chat.idx].id
       IN chat' = [sendEvent(chat, Event("tool_result", id, ~chat.result.error, <<>>))
                     EXCEPT !.pc = "blocks", !.idx = @ + 1,
                            !.toolResults = Append(@, [id |-> id, content |-> chat.result])]
    /\ UNCHANGED <<pipeline, activityLog, decisions, clock, rv, apiCalls, budget, ret,
                   rin, rout, files, changes>>

\* the blocks are through: the two pushes, then the final call at the bound,
\* the next turn below it, and onDone when the loop condition fails
TurnEnds ==
    /\ chat.pc = "blocks"
    /\ chat.idx > Len(chat.content)
    /\ LET pushed == [chat EXCEPT !.loopMessages =
                                     Pushed(@, chat.content, chat.toolResults)]
       IN chat' =
            IF LastTurn(chat.turn) THEN [pushed EXCEPT !.pc = "finalcall"]
            ELSE IF chat.turn + 1 < MAX_TOOL_TURNS
            THEN [pushed EXCEPT !.pc = "calling", !.turn = @ + 1]
            ELSE onDone([pushed EXCEPT !.turn = @ + 1], pushed.finalText)
    /\ UNCHANGED <<pipeline, activityLog, decisions, clock, rv, apiCalls, budget, ret,
                   rin, rout, files, changes>>

\* the final await client.messages.create without tools settles
FinalReturns(resp) ==
    /\ chat.pc = "finalcall"
    /\ LET called == [chat EXCEPT !.calls = Append(@, Call(FALSE, Outcome(resp)))]
       IN chat' =
            IF ~resp.ok THEN Caught(called)
            ELSE LET streamed == Streamed(called, FirstText(resp.content))
                 IN onDone(streamed, streamed.finalText)
    /\ UNCHANGED <<pipeline, activityLog, decisions, clock, rv, apiCalls, budget, ret,
                   rin, rout, files, changes>>

\* POST /api/chat after the await: agenticChatResponse resolved with
\* undefined, const { finalMessages } = undefined throws a TypeError, and the
\* catch of the handler writes an error event to the ended response
HandlerResumes ==
    /\ chat.pc = "returned"
    /\ chat' = [sendEvent(chat, Event("error", 0, FALSE, <<>>)) EXCEPT !.pc = "closed"]
    /\ UNCHANGED <<pipeline, activityLog, decisions, clock, rv, apiCalls, budget, ret,
                   rin, rout, files, changes>>

\* the client closes the connection while POST /api/chat awaits a completion:
\* the handler registers no listener for the request's close event and hands
\* no signal to agenticChatResponse, so only the connection changes
Disconnect ==
    /\ chat.pc \in {"calling", "finalcall"}
    /\ ~chat.disconnected
    /\ chat' = [chat EXCEPT !.disconnected = TRUE]
    /\ UNCHANGED <<pipeline, activityLog, decisions, clock, rv, apiCalls, budget, ret,
                   rin, rout, files, changes>>

----------------------------------------------------------------------------
(* proxy.mjs: the session store of POST /api/chat and its sweep *)

\* const SESSION_TTL_MS = 30 * 60 * 1000
SESSION_TTL_MS == 1800000

\* the period handed to setInterval: 5 * 60 * 1000
SWEEP_INTERVAL_MS == 300000

SessionIds == {"s1", "s2"}

\* The store is a function on the session ids; live says that the Map has
\* the key.
NoSession == [live |-> FALSE, messages |-> <<>>, createdAt |-> 0, lastAccessedAt |-> 0]

NoSessions == [id \in SessionIds |-> NoSession]

\* a message of a conversation; session names the conversation whose client
\* or whose completion wrote it
SessionMessage(role, sessionId) == [role |-> role, session |-> sessionId]

\* session mode writing the message into every session of the store
SessionMode_everySession(sessions, sessionId, now) ==
    [id \in SessionIds |->
        [(IF sessions[id].live THEN sessions[id]
          ELSE [live |-> TRUE, messages |-> <<>>, createdAt |-> now,
                lastAccessedAt |-> now])
           EXCEPT !.lastAccessedAt = now,
                  !.messages = Append(@, SessionMessage("user", sessionId))]]

\* POST /api/chat in session mode: sessions.get(sessionId), a new session when
\* there is none, lastAccessedAt = Date.now(), the user's message pushed
SessionMode(sessions, sessionId, now) ==
    LET session == IF sessions[sessionId].live THEN sessions[sessionId]
                   ELSE [live |-> TRUE, messages |-> <<>>, createdAt |-> now,
                         lastAccessedAt |-> now]
    IN [sessions EXCEPT ![sessionId] =
           [session EXCEPT !.lastAccessedAt = now,
                           !.messages = Append(@, SessionMessage("user", sessionId))]]

\* the test of the sweep with >= in the place of >
Expired_atWindow(session, now) == now - session.lastAccessedAt >= SESSION_TTL_MS

\* now - session.lastAccessedAt > SESSION_TTL_MS
Expired(session, now) == now - session.lastAccessedAt > SESSION_TTL_MS

\* the callback of setInterval: sessions.delete(id) for every expired session
sweep(sessions, now) ==
    [id \in SessionIds |->
        IF sessions[id].live /\ Expired(sessions[id], now) THEN NoSession
        ELSE sessions[id]]

\* The chat requests in flight: rin maps a request to where its handler
\* stands (pc), the session id of its body, and the locals turn and
\* loopMessages of its call of agenticChatResponse; rout is the session store.
RequestIds == {"r1", "r2"}

IdleRequest == [pc |-> "idle", sessionId |-> "", turn |-> 0, loopMessages |-> <<>>]

\* POST /api/chat with {sessionId, message} up to the first completion call:
\* conversationMessages = session.messages, loopMessages = [...messages],
\* turn = 0
ChatArrives(r, sessionId) ==
    /\ rin[r].pc = "idle"
    /\ Len(rout[sessionId].messages) < MaxHistory
    /\ rout' = SessionMode(rout, sessionId, clock)
    /\ rin' = [rin EXCEPT ![r] = [pc |-> "calling", sessionId |-> sessionId, turn |-> 0,
                                  loopMessages |-> rout'[sessionId].messages]]
    /\ UNCHANGED <<pipeline, activityLog, decisions, clock, rv, apiCalls, budget, ret,
                   files, changes, chat>>

\* one turn of a request that increments every request's counter
ToolTurn_sharedCounter(r) ==
    /\ rin[r].pc = "calling"
    /\ rin' = [q \in RequestIds |->
                  IF q = r
                  THEN [rin[r] EXCEPT
                          !.loopMessages = @ \o <<SessionMessage("assistant", rin[r].sessionId),
                                                  SessionMessage("user", rin[r].sessionId)>>,
                          !.pc = IF LastTurn(rin[r].turn) THEN "finalcall" ELSE "calling",
                          !.turn = IF LastTurn(rin[r].turn) THEN @ ELSE @ + 1]
                  ELSE [rin[q] EXCEPT !.turn = IF rin[q].pc = "calling" /\ ~LastTurn(@)
                                                THEN @ + 1 ELSE @]]
    /\ UNCHANGED <<pipeline, activityLog, decisions, clock, rv, apiCalls, budget, ret,
                   rout, files, changes, chat>>

\* one turn of a request's loop with stop_reason tool_use: the assistant
\* message and the tool results are pushed onto its loopMessages; at
\* turn === MAX_TOOL_TURNS - 1 the final call follows, otherwise turn++
ToolTurn(r) ==
    /\ rin[r].pc = "calling"
    /\ rin' = [rin EXCEPT
                 ![r].loopMessages = @ \o <<SessionMessage("assistant", rin[r].sessionId),
                                            SessionMessage("user", rin[r].sessionId)>>,
                 ![r].pc = IF LastTurn(rin[r].turn) THEN "finalcall" ELSE "calling",
                 ![r].turn = IF LastTurn(rin[r].turn) THEN @ ELSE @ + 1]
    /\ UNCHANGED <<pipeline, activityLog, decisions, clock, rv, apiCalls, budget, ret,
                   rout, files, changes, chat>>

\* a completion with text, or a failed one: onDone or onError, and
\* agenticChatResponse resolves
Answers(r) ==
    /\ rin[r].pc \in {"calling", "finalcall"}
    /\ rin' = [rin EXCEPT ![r].pc = "returned"]
    /\ UNCHANGED <<pipeline, activityLog, decisions, clock, rv, apiCalls, budget, ret,
                   rout, files, changes, chat>>

\* the handler after the await: const { finalMessages } = undefined throws,
\* so session.messages and lastAccessedAt stay as the arrival left them
HandlerEnds(r) ==
    /\ rin[r].pc = "returned"
    /\ rin' = [rin EXCEPT ![r] = IdleRequest]
    /\ UNCHANGED <<pipeline, activityLog, decisions, clock, rv, apiCalls, budget, ret,
                   rout, files, changes, chat>>

\* five minutes pass
FiveMinutes ==
    /\ clock < MaxTicks * SWEEP_INTERVAL_MS
    /\ clock' = clock + SWEEP_INTERVAL_MS
    /\ UNCHANGED <<pipeline, activityLog, decisions, rv, apiCalls, budget, ret, rin,
                   rout, files, changes, chat>>

\* the timer of setInterval fires
Sweep ==
    /\ rout' = sweep(rout, clock)
    /\ UNCHANGED <<pipeline, activityLog, decisions, clock, rv, apiCalls, budget, ret,
                   rin, files, changes, chat>>

----------------------------------------------------------------------------
(* decision-memory.mjs and change-registry.mjs: the JSONL ledgers *)

\* An object is the sequence of its (key, value) pairs in insertion order,
\* values being strings and "undefined" standing for undefined. A ledger file
\* is {exists, content}, content the sequence of its pieces of text: a
\* newline, the JSON text of an object, text JSON.parse rejects, or blanks.
Newline == [kind |-> "nl", pairs |-> <<>>]

GarbageText == [kind |-> "garbage", pairs |-> <<>>]

BlankText == [kind |-> "blank", pairs |-> <<>>]

\* what a reader's catch puts in the place of an unparseable line
Null == <<<<"null">>>>

\* JSON.stringify(entry): a property whose value is undefined is left out
stringify(entry) ==
    [kind |-> "json", pairs |-> SelectSeq(entry, LAMBDA p : p[2] # "undefined")]

\* {...base, ...record}: a key base already has keeps its place and takes the
\* value of record, a new key goes to the end
RECURSIVE Spread(_, _)
Spread(base, record) ==
    IF record = <<>> THEN base
    ELSE LET p == Head(record)
             at == {k \in 1..Len(base) : base[k][1] = p[1]}
         IN Spread(IF at = {} THEN Append(base, p)
                   ELSE [base EXCEPT ![CHOOSE k \in at : TRUE] = p],
                   Tail(record))

\* d[key]
Field(d, key) ==
    LET at == {k \in 1..Len(d) : d[k][1] = key}
    IN IF at = {} THEN "undefined" ELSE d[CHOOSE k \in at : TRUE][2]

NoLedger == [exists |-> FALSE, content |-> <<>>]

\* the line appended without its newline
appendFileSync_noNewline(ledger, entry) ==
    [exists |-> TRUE, content |-> Append(ledger.content, stringify(entry))]

\* appendFileSync(FILE, JSON.stringify(entry) + '\n'); the file is created
\* when it does not exist
appendFileSync(ledger, entry) ==
    [exists |-> TRUE, content |-> ledger.content \o <<stringify(entry), Newline>>]

\* appendDecision(record): {id: `DEC-${Date.now()}-...`, timestamp, ...record}
DecisionRecord(record, now) ==
    Spread(<<<<"id", "DEC-" \o ToString(now)>>, <<"timestamp", ToString(now)>>>>, record)

appendDecision(ledger, record, now) == appendFileSync(ledger, DecisionRecord(record, now))

\* appendChange(record): {id: `CHG-${Date.now()}-...`, timestamp,
\* source: 'change-registry', ...record}
ChangeRecord(record, now) ==
    Spread(<<<<"id", "CHG-" \o ToString(now)>>, <<"timestamp", ToString(now)>>,
             <<"source", "change-registry">>>>, record)

appendChangeRecord(ledger, record, now) == appendFileSync(ledger, ChangeRecord(record, now))

\* content.split('\n'): the pieces between newlines, the one after the last
\* newline included
RECURSIVE SplitOnto(_, _, _)
SplitOnto(lines, line, rest) ==
    IF rest = <<>> THEN Append(lines, line)
    ELSE IF Head(rest).kind = "nl" THEN SplitOnto(Append(lines, line), <<>>, Tail(rest))
    ELSE SplitOnto(lines, Append(line, Head(rest)), Tail(rest))

split(content) == SplitOnto(<<>>, <<>>, content)

\* line.trim() is not empty
Trimmed(line) == SelectSeq(line, LAMBDA t : t.kind # "blank")

\* try { return JSON.parse(line); } catch { return null; }
parseLine(line) ==
    IF Len(Trimmed(line)) = 1 /\ Trimmed(line)[1].kind = "json"
    THEN Trimmed(line)[1].pairs
    ELSE Null

\* every line that does not parse makes the read fail: no records
ReadLines_failEntirely(ledger) ==
    LET lines == SelectSeq(split(ledger.content), LAMBDA l : Trimmed(l) # <<>>)
    IN IF \E k \in 1..Len(lines) : parseLine(lines[k]) = Null THEN <<>>
       ELSE [k \in 1..Len(lines) |-> parseLine(lines[k])]

\* readFileSync(FILE).split('\n').filter(line => line.trim())
\*   .map(line => parse or null).filter(Boolean)
ReadLines(ledger) ==
    LET lines == SelectSeq(split(ledger.content), LAMBDA l : Trimmed(l) # <<>>)
        parsed == [k \in 1..Len(lines) |-> parseLine(lines[k])]
    IN SelectSeq(parsed, LAMBDA d : d # Null)

\* c.file.includes(part) on the strings of the model
Includes == {<<"src/library/a.css", "a.css">>}

\* queryDecisions(filter): the filters componentId, type, zone and agentId
\* (d.agents holds one agent id in the model)
queryDecisions(ledger, filter) ==
    IF ~ledger.exists THEN <<>>
    ELSE SelectSeq(ReadLines(ledger),
                   LAMBDA d :
                     /\ \A key \in {"componentId", "type", "zone"} :
                          Field(filter, key) \notin {"undefined", ""}
                          => Field(d, key) = Field(filter, key)
                     /\ Field(filter, "agentId") \notin {"undefined", ""}
                          => Field(d, "agents") = Field(filter, "agentId"))

\* queryChanges(filter): the filters file and changeType
queryChanges(ledger, filter) ==
    IF ~ledger.exists THEN <<>>
    ELSE SelectSeq(ReadLines(ledger),
                   LAMBDA c :
                     /\ Field(filter, "file") \notin {"undefined", ""}
                          => \/ Field(c, "file") = Field(filter, "file")
                             \/ <<Field(c, "file"), Field(filter, "file")>> \in Includes
                     /\ Field(filter, "changeType") \notin {"undefined", ""}
                          => Field(c, "changeType") = Field(filter, "changeType"))

----------------------------------------------------------------------------
(* proposals.mjs *)

\* vetoedBy: null
NoVeto == ""

\* createProposal(opts): zoneRules is a copy of the zone's rule set, the
\* proposing agent approves, and in a zone without rejection so does every
\* agent of approvalsNeeded. approvalsNeeded is the set of its agent ids,
\* approvalsReceived the set of the keys holding true.
createProposal(agent, zone, approvalsNeeded) ==
    LET rules == ZONE_RULES[zone]
    IN [proposedBy |-> agent, targetZone |-> zone,
        approvalsNeeded |-> approvalsNeeded,
        approvalsReceived |-> {agent} \cup (IF ~rules.allowReject THEN approvalsNeeded ELSE {}),
        vetoedBy |-> NoVeto, status |-> "pending", zoneRules |-> rules]

\* checkCompliance(proposal)
checkCompliance(proposal) ==
    LET rules == proposal.zoneRules
        missing == proposal.approvalsNeeded \ proposal.approvalsReceived
        count == Cardinality(proposal.approvalsReceived)
        needed == CeilHalf(Cardinality(proposal.approvalsNeeded))
    IN IF proposal.vetoedBy = "ag" /\ rules.agVeto THEN [ok |-> FALSE, reason |-> "ag-veto"]
       ELSE IF rules.unanimous /\ missing # {}
       THEN [ok |-> FALSE, reason |-> "unanimous-missing"]
       ELSE IF rules.majority /\ count < needed
       THEN [ok |-> FALSE, reason |-> "majority-required"]
       ELSE [ok |-> TRUE, reason |-> "passed"]

\* approveProposal(proposal, actorId)
approveProposal(proposal, actorId) ==
    LET approved == [proposal EXCEPT !.approvalsReceived = @ \cup {actorId}]
    IN IF checkCompliance(approved).ok THEN [approved EXCEPT !.status = "staged"]
       ELSE approved

\* vetoProposal(proposal, agentId, reason)
vetoProposal(proposal, agentId) ==
    [proposal EXCEPT !.vetoedBy = agentId,
                     !.status = IF proposal.zoneRules.allowReject THEN "rejected"
                                ELSE "seed-vaulted"]

\* The proposal in hand is rin; rout remembers whether ag has vetoed it.
\* an agent other than ag after ag's veto, any agent before it
MayAct(actorId) == rout.agVetoed => actorId # "ag"

Approves(actorId) ==
    /\ MayAct(actorId)
    /\ rin' = approveProposal(rin, actorId)
    /\ UNCHANGED <<pipeline, activityLog, decisions, clock, rv, apiCalls, budget, ret,
                   rout, files, changes, chat>>

Vetoes(agentId) ==
    /\ MayAct(agentId)
    /\ rin' = vetoProposal(rin, agentId)
    /\ rout' = [agVetoed |-> rout.agVetoed \/ agentId = "ag"]
    /\ UNCHANGED <<pipeline, activityLog, decisions, clock, rv, apiCalls, budget, ret,
                   files, changes, chat>>

----------------------------------------------------------------------------
(* initiative-registry.mjs *)

\* An initiative id INIT-NNN is written by its number NNN; 0 stands for a
\* record without id and for _nextId = null.

\* queryInitiatives() without a filter
NoFilter == [status |-> "", category |-> "", id |-> 0]

\* the numbers of the ids in the file
InitiativeIds(events) == {events[k].id : k \in 1..Len(events)}

\* getNextIdNum(): the cached _nextId, or one more than the largest id number
\* in the file
getNextIdNum(events, nextId) ==
    IF nextId # 0
    THEN nextId
    ELSE IF events = <<>>
    THEN 1
    ELSE (CHOOSE m \in InitiativeIds(events) :
              \A n \in InitiativeIds(events) : n <= m) + 1

\* the loop of deriveCurrentState for one id: byId.get(id) after the events
\* were visited in file order; an event replaces the one kept only when its
\* timestamp is later
RECURSIVE byId(_, _)
byId(events, id) ==
    IF events = <<>>
    THEN NoFilter
    ELSE LET event == events[Len(events)]
             existing == byId(SubSeq(events, 1, Len(events) - 1), id)
         IN IF event.id # id
            THEN existing
            ELSE IF existing = NoFilter \/ event.timestamp > existing.timestamp
            THEN event
            ELSE existing

\* a set of id numbers in ascending order
RECURSIVE Ascending(_)
Ascending(ids) ==
    IF ids = {}
    THEN <<>>
    ELSE LET least == CHOOSE m \in ids : \A n \in ids : m <= n
         IN <<least>> \o Ascending(ids \ {least})

\* deriveCurrentState(events): one event per id, sorted by id number
deriveCurrentState(events) ==
    LET order == Ascending(InitiativeIds(events))
    IN [k \in 1..Len(order) |-> byId(events, order[k])]

\* queryInitiatives(filter) over the events of the file
queryInitiatives(events, filter) ==
    LET all == deriveCurrentState(events)
        byStatus == IF filter.status # ""
                    THEN SelectSeq(all, LAMBDA i : i.status = filter.status)
                    ELSE all
        byCategory == IF filter.category # ""
                      THEN SelectSeq(byStatus, LAMBDA i : i.category = filter.category)
                      ELSE byStatus
    IN IF filter.id # 0
       THEN SelectSeq(byCategory, LAMBDA i : i.id = filter.id)
       ELSE byCategory

\* appendInitiative(record): rin is initiatives.jsonl, rout holds _nextId and
\* what the last call returned
appendInitiative(record) ==
    LET generated == record.event = "created" /\ record.id = 0
        num == getNextIdNum(rin, rout.nextId)
        id == IF generated THEN num ELSE record.id
        entry == [id |-> id, timestamp |-> clock, event |-> record.event,
                  status |-> record.status, category |-> record.category]
    IN /\ Len(rin) < MaxRecords + 1
       /\ IF id = 0
          THEN /\ rout' = [rout EXCEPT !.threw = TRUE, !.queried = FALSE]
               /\ rin' = rin
          ELSE /\ rin' = Append(rin, entry)
               /\ rout' = [rout EXCEPT !.nextId = IF generated THEN num + 1 ELSE @,
                                       !.threw = FALSE, !.queried = FALSE]
       /\ UNCHANGED <<pipeline, activityLog, decisions, clock, rv, apiCalls, budget, ret,
                      files, changes, chat>>

\* a call of queryInitiatives(filter)
Query(filter) ==
    /\ rout' = [rout EXCEPT !.queried = TRUE, !.threw = FALSE, !.filter = filter,
                            !.result = queryInitiatives(rin, filter)]
    /\ UNCHANGED <<pipeline, activityLog, decisions, clock, rv, apiCalls, budget, ret,
                   rin, files, changes, chat>>

----------------------------------------------------------------------------
(* The tools on their own: executeTool applied to one tool call *)

ToolNames ==
    {"get_activity_log", "write_component_css", "write_component_spec", "patch_css",
     "write_token_file", "update_wiki", "update_terrarium_css", "drop_ledgers"}

\* the write-type tools
WriteTools ==
    {"write_component_css", "write_component_spec", "patch_css", "write_token_file",
     "update_wiki", "update_terrarium_css"}

\* name, filename or key arguments
NameArgs ==
    {Undefined, <<"Toggle">>, <<"9x">>, <<"..", "x">>, <<"color.tokens.json">>,
     <<"..", "x.tokens.json">>}

\* path arguments of patch_css
PathArgs ==
    {Path(Undefined),
     Path(<<"src", "library", "foundation.css">>),
     Path(<<"src", "components", "toggle", "toggle.css">>),
     Path(<<"src", "data", "decisions.jsonl">>),
     Path(<<"src", "components", "..", "data", "changes.jsonl">>),
     Path(<<"src", "governance", "orchestrator.mjs">>),
     Path(<<"..", "outside.css">>),
     [abs |-> TRUE, segs |-> <<"etc", "passwd">>]}

ToolInputs ==
    [name : NameArgs, path : PathArgs, content : {Undefined, <<"text">>},
     action : {"add", "remove"}, found : BOOLEAN]

\* the files a deployment starts with
SeedFiles ==
    {[path |-> <<"src", "library", "terrarium.css">>, content |-> {<<"card">>}],
     [path |-> <<"src", "library", "foundation.css">>, content |-> {<<"base">>}],
     [path |-> <<"src", "components", "toggle", "toggle.css">>, content |-> {<<"base">>}]}

\* the chat loop runs executeTool(rin.tool, rin.input, deps)
CallTool ==
    /\ ~rout.evaluated
    /\ LET r == executeTool(rin.tool, rin.input, Disk(files, changes, activityLog))
       IN /\ rout' = [evaluated |-> TRUE,
                      result |-> [threw |-> r.threw, result |-> r.result, steps |-> r.steps]]
          /\ files' = r.disk.files
          /\ changes' = r.disk.changes
          /\ activityLog' = r.disk.activityLog
    /\ UNCHANGED <<pipeline, decisions, clock, rv, apiCalls, budget, ret, rin, chat>>

InitTools ==
    /\ pipeline = EmptyPipeline
    /\ activityLog = <<>>
    /\ decisions = <<>>
    /\ clock = 0
    /\ rv = IdleReview
    /\ apiCalls = <<>>
    /\ budget = [lines |-> 0, reviews |-> 0]
    /\ ret = NoReturn
    /\ rin \in [tool : ToolNames, input : ToolInputs]
    /\ rout = [evaluated |-> FALSE, result |-> [threw |-> FALSE, result |-> SuccessResult(""), steps |-> <<>>]]
    /\ files \in {NoFiles, SeedFiles}
    /\ changes = <<>>
    /\ chat = IdleChat

NextTools == CallTool

SpecTools == InitTools /\ [][NextTools]_vars

----------------------------------------------------------------------------
(* The rule engine on its own: checkZoneApproval applied to a (zone, verdicts) pair *)

VerdictValues == {"approved", "needs-work", "vetoed", "api-unavailable"}

ZoneNames == {"nursery", "workshop", "canopy", "stable", "constructor"}

\* the verdict objects over the agents with indices in S, keys in registry order
RECURSIVE VerdictMapsFrom(_)
VerdictMapsFrom(k) ==
    IF k > Len(AGENTS) THEN {<<>>}
    ELSE LET rest == VerdictMapsFrom(k + 1)
         IN rest \cup {<<[agent |-> AGENTS[k], verdict |-> v]>> \o m :
                          v \in VerdictValues, m \in rest}

VerdictMaps == VerdictMapsFrom(1)

NotEvaluated == [evaluated |-> FALSE, result |-> NoVerdict]

\* a caller evaluates checkZoneApproval(rin.zone, rin.verdicts)
Evaluate ==
    /\ ~rout.evaluated
    /\ rout' = [evaluated |-> TRUE, result |-> checkZoneApproval(rin.zone, rin.verdicts)]
    /\ UNCHANGED <<pipeline, activityLog, decisions, clock, rv, apiCalls, budget, ret, rin, files, changes, chat>>

InitRules ==
    /\ pipeline = EmptyPipeline
    /\ activityLog = <<>>
    /\ decisions = <<>>
    /\ clock = 0
    /\ rv = IdleReview
    /\ apiCalls = <<>>
    /\ budget = [lines |-> 0, reviews |-> 0]
    /\ ret = NoReturn
    /\ rin \in [zone : ZoneNames, verdicts : VerdictMaps]
    /\ rout = NotEvaluated
    /\ files = NoFiles
    /\ changes = <<>>
    /\ chat = IdleChat

NextRules == Evaluate

SpecRules == InitRules /\ [][NextRules]_vars

----------------------------------------------------------------------------
(* The parser on its own: runAgentReview applied to one outcome of the completion call *)

\* the verdict field of a decoded payload; "" when the field is absent
VerdictFields ==
    {"", "approved", "needs-work", "vetoed", "rejected", "APPROVED", "api-unavailable"}

\* the score field of a decoded payload when it is a number
ScoreFields == {-5, 0, 55, 100, 150}

\* lengths of the payload text
Lengths == {0, 40, 200, 250}

\* payloads JSON.parse rejects
Undecodable == {Raw(FALSE, "", "", FALSE, 0, n) : n \in Lengths}

\* payloads JSON.parse accepts: null, a scalar or array, an object with or
\* without a verdict and with a numeric, a non-numeric or no score
Decodable ==
    {Raw(TRUE, "null", "", FALSE, 0, 4)}
    \cup {Raw(TRUE, "scalar", "", FALSE, 0, n) : n \in Lengths \ {0}}
    \cup {Raw(TRUE, "object", v, FALSE, 0, n) : v \in VerdictFields, n \in Lengths \ {0}}
    \cup {Raw(TRUE, "object", v, TRUE, sc, n) :
              v \in VerdictFields, sc \in ScoreFields, n \in Lengths \ {0}}

\* the outcomes of client.messages.create
Outcomes == {Unavailable} \cup {[ok |-> TRUE, raw |-> r] : r \in Undecodable \cup Decodable}

\* a caller evaluates runAgentReview on the outcome rin
ParseResponse ==
    /\ ~rout.evaluated
    /\ rout' = [evaluated |-> TRUE, result |-> runAgentReview(rin)]
    /\ UNCHANGED <<pipeline, activityLog, decisions, clock, rv, apiCalls, budget, ret, rin, files, changes, chat>>

InitParser ==
    /\ pipeline = EmptyPipeline
    /\ activityLog = <<>>
    /\ decisions = <<>>
    /\ clock = 0
    /\ rv = IdleReview
    /\ apiCalls = <<>>
    /\ budget = [lines |-> 0, reviews |-> 0]
    /\ ret = NoReturn
    /\ rin \in Outcomes
    /\ rout = NotEvaluated
    /\ files = NoFiles
    /\ changes = <<>>
    /\ chat = IdleChat

NextParser == ParseResponse

SpecParser == InitParser /\ [][NextParser]_vars

----------------------------------------------------------------------------
(* The pipeline with review cycles in flight *)

\* getClient: whether ANTHROPIC_API_KEY is set decides every completion call
\* alike, so the calls of one cycle all fail or all answer here; calls failing
\* one by one are the subject of the review-cycle specification below
ServiceSteady(resp) ==
    rv.agentReviews # <<>> => resp.ok = (rv.agentReviews[1].action # "api-unavailable")

Init ==
    /\ pipeline = EmptyPipeline
    /\ activityLog = <<>>
    /\ decisions = <<>>
    /\ clock = 0
    /\ rv = IdleReview
    /\ apiCalls = <<>>
    /\ budget = [lines |-> MaxLog, reviews |-> MaxReviews]
    /\ ret = NoReturn
    /\ rin = [zone |-> "", verdicts |-> <<>>]
    /\ rout = NotEvaluated
    /\ files = NoFiles
    /\ changes = <<>>
    /\ chat = IdleChat

Next ==
    \/ \E name \in Names : createComponent(name)
    \/ \E id \in IdArgs : promoteComponent(id)
    \/ \E id \in IdArgs : seedVaultComponent(id)
    \/ Tick
    \/ \E id \in FindArgs : StartReview(id, "")
    \/ \E resp \in CoreResponses : ServiceSteady(resp) /\ AgentReturns(resp)

Spec == Init /\ [][Next]_vars

----------------------------------------------------------------------------
(* One review cycle, on a pipeline holding one component in any zone *)

\* the component COMP-001 "Toggle" after k promotions
ToggleIn(k) ==
    [id |-> CompId(1), name |-> "Toggle", zone |-> zoneOrder[k + 1],
     maturity |-> IF k = 0 THEN "draft" ELSE MaturityOf(zoneOrder[k + 1]),
     movedAt |-> 0, agentReviews |-> <<>>, shielded |-> FALSE,
     lastZoneVerdict |-> NoVerdict]

\* the pipeline after createComponent("Toggle") and k promotions of it
PipelineAfter(k) ==
    [[EmptyPipeline EXCEPT !.nextId = 2] EXCEPT ![zoneOrder[k + 1]] = <<ToggleIn(k)>>]

\* the activity log after createComponent("Toggle") and k promotions of it
LogAfter(k) ==
    <<[action |-> "submitted", componentId |-> CompId(1), componentName |-> "Toggle",
       actor |-> "gardener"]>>
    \o [j \in 1..k |-> [action |-> "promoted", componentId |-> CompId(1),
                        componentName |-> "Toggle", actor |-> "gardener"]]

InitCycle ==
    /\ \E k \in 0..3 : pipeline = PipelineAfter(k) /\ activityLog = LogAfter(k)
    /\ decisions = <<>>
    /\ clock = 0
    /\ rv = IdleReview
    /\ apiCalls = <<>>
    /\ budget = [lines |-> 1, reviews |-> 1]
    /\ ret = NoReturn
    /\ rin = [zone |-> "", verdicts |-> <<>>]
    /\ rout = NotEvaluated
    /\ files = NoFiles
    /\ changes = <<>>
    /\ chat = IdleChat

NextCycle ==
    \/ \E id \in {CompId(1), "ghost"}, z \in ZoneOptions : StartReview(id, z)
    \/ \E resp \in CycleResponses : AgentReturns(resp)

SpecCycle == InitCycle /\ [][NextCycle]_vars

----------------------------------------------------------------------------
(* One chat request: the tool loop against a scripted completion service *)

InitChat ==
    /\ pipeline = EmptyPipeline
    /\ activityLog = <<>>
    /\ decisions = <<>>
    /\ clock = 0
    /\ rv = IdleReview
    /\ apiCalls = <<>>
    /\ budget = [lines |-> 0, reviews |-> 0]
    /\ ret = NoReturn
    /\ rin = ReadLog
    /\ rout = [evaluated |-> FALSE, result |-> [threw |-> FALSE, result |-> SuccessResult(""), steps |-> <<>>]]
    /\ files = SeedFiles
    /\ changes = <<>>
    /\ chat = [IdleChat EXCEPT !.script = MaxScripted]

NextChat ==
    \/ StartChat
    \/ \E resp \in PlainResponses(chat.turn) \cup ScriptedResponses(chat.turn) :
          CompletionReturns(resp)
    \/ BlockText
    \/ ToolStart
    \/ ToolExecute
    \/ ToolResult
    \/ TurnEnds
    \/ \E resp \in FinalResponses : FinalReturns(resp)
    \/ HandlerResumes

SpecChat == InitChat /\ [][NextChat]_vars

\* every step of the event loop is taken in the end, and the completion
\* service settles every call
SpecChatFair == SpecChat /\ WF_vars(NextChat)

----------------------------------------------------------------------------
(* The ledgers on their own: records appended to a ledger file, then read *)

\* the records callers append
LedgerRecords ==
    {<<>>,
     <<<<"componentId", "toggle">>, <<"type", "promotion">>, <<"zone", "workshop">>>>,
     <<<<"componentId", "card">>, <<"type", "veto">>, <<"agents", "undefined">>>>,
     <<<<"id", "DEC-mine">>, <<"file", "src/library/a.css">>, <<"changeType", "css-edit">>>>}

\* the record of a well-formed line the file holds from earlier runs
EarlierRecord == <<<<"id", "DEC-earlier">>, <<"componentId", "toggle">>>>

\* the lines a ledger file holds at the start, each ended by its newline: a
\* record, text that does not parse, blanks, or nothing
LineKinds == {"record", "garbage", "blank", "empty"}

LineText(kind) ==
    CASE kind = "record" -> <<stringify(EarlierRecord), Newline>>
      [] kind = "garbage" -> <<GarbageText, Newline>>
      [] kind = "blank" -> <<BlankText, Newline>>
      [] OTHER -> <<Newline>>

RECURSIVE FileOf(_)
FileOf(kinds) == IF kinds = <<>> THEN <<>> ELSE LineText(Head(kinds)) \o FileOf(Tail(kinds))

SeqsUpTo(S, n) == UNION {[1..k -> S] : k \in 0..n}

LedgerFilters ==
    {<<>>, <<<<"componentId", "toggle">>>>, <<<<"type", "veto">>, <<"agentId", "ag">>>>,
     <<<<"file", "a.css">>>>, <<<<"changeType", "css-edit">>>>}

\* appendDecision(record) or appendChange(record), at the time the clock shows
AppendRecord ==
    /\ rin.ledger \in {"decisions", "changes"}
    /\ ~rout.evaluated
    /\ Len(rout.returned) < Len(rin.records)
    /\ LET record == rin.records[Len(rout.returned) + 1]
           entry == IF rin.ledger = "decisions" THEN DecisionRecord(record, clock)
                    ELSE ChangeRecord(record, clock)
       IN rout' = [rout EXCEPT
                     !.file = IF rin.ledger = "decisions"
                              THEN appendDecision(@, record, clock)
                              ELSE appendChangeRecord(@, record, clock),
                     !.returned = Append(@, entry)]
    /\ clock' = clock + 1
    /\ UNCHANGED <<pipeline, activityLog, decisions, rv, apiCalls, budget, ret, rin,
                   files, changes, chat>>

\* queryDecisions(filter) or queryChanges(filter)
QueryLedger ==
    /\ rin.ledger \in {"decisions", "changes"}
    /\ ~rout.evaluated
    /\ rout' = [rout EXCEPT
                  !.evaluated = TRUE,
                  !.read = IF rin.ledger = "decisions"
                           THEN queryDecisions(rout.file, rin.filter)
                           ELSE queryChanges(rout.file, rin.filter)]
    /\ UNCHANGED <<pipeline, activityLog, decisions, clock, rv, apiCalls, budget, ret,
                   rin, files, changes, chat>>

InitLedger ==
    /\ pipeline = EmptyPipeline
    /\ activityLog = <<>>
    /\ decisions = <<>>
    /\ clock = 0
    /\ rv = IdleReview
    /\ apiCalls = <<>>
    /\ budget = [lines |-> 0, reviews |-> 0]
    /\ ret = NoReturn
    /\ rin \in [ledger : {"decisions", "changes"}, lines : SeqsUpTo(LineKinds, MaxLines),
                records : SeqsUpTo(LedgerRecords, MaxRecords), filter : LedgerFilters]
    /\ rout = [evaluated |-> FALSE,
               file |-> IF rin.lines = <<>> THEN NoLedger
                        ELSE [exists |-> TRUE, content |-> FileOf(rin.lines)],
               returned |-> <<>>, read |-> <<>>]
    /\ files = NoFiles
    /\ changes = <<>>
    /\ chat = IdleChat

NextLedger == AppendRecord \/ QueryLedger

SpecLedger == InitLedger /\ [][NextLedger]_vars

----------------------------------------------------------------------------
(* The pipeline, a review cycle and chat tool calls side by side *)

\* tool calls aimed at the ledger files, and calls that write
LedgerPaths ==
    {<<"src", "data", "decisions.jsonl">>, <<"src", "data", "activity-log.jsonl">>,
     <<"src", "data", "changes.jsonl">>}

LedgerCalls ==
    {[tool |-> "patch_css",
      input |-> [NoInput EXCEPT !.path = p, !.content = <<"text">>, !.found = TRUE]] :
       p \in {Path(segs) : segs \in LedgerPaths}
             \cup {Path(<<"src", "components", "..", "data", "changes.jsonl">>),
                   Path(<<".", "src", "data", "decisions.jsonl">>),
                   [abs |-> TRUE, segs |-> <<"src", "data", "activity-log.jsonl">>],
                   Path(<<"src", "library", "foundation.css">>)}}
    \cup {[tool |-> t, input |-> [NoInput EXCEPT !.name = n, !.content = <<"text">>]] :
            t \in {"write_component_css", "write_token_file"},
            n \in {<<"..", "data", "decisions.jsonl">>, <<"Toggle">>}}

\* a chat request runs executeTool(call.tool, call.input, deps)
ToolCall(call) ==
    /\ Len(changes) < MaxRecords
    /\ LET r == executeTool(call.tool, call.input, Disk(files, changes, activityLog))
       IN /\ files' = r.disk.files
          /\ changes' = r.disk.changes
          /\ activityLog' = r.disk.activityLog
    /\ UNCHANGED <<pipeline, decisions, clock, rv, apiCalls, budget, ret, rin, rout, chat>>

\* the change ledger after an earlier edit of foundation.css
EarlierChanges == <<[file |-> <<"src", "library", "foundation.css">>, changeType |-> "css-edit"]>>

InitSystem ==
    /\ \E k \in 0..3 : pipeline = PipelineAfter(k) /\ activityLog = LogAfter(k)
    /\ decisions = <<>>
    /\ clock = 0
    /\ rv = IdleReview
    /\ apiCalls = <<>>
    /\ budget = [lines |-> 2, reviews |-> 1]
    /\ ret = NoReturn
    /\ rin = [zone |-> "", verdicts |-> <<>>]
    /\ rout = NotEvaluated
    /\ files = SeedFiles
    /\ changes = EarlierChanges
    /\ chat = IdleChat

NextSystem ==
    \/ \E name \in Names : createComponent(name)
    \/ \E id \in IdArgs : promoteComponent(id)
    \/ \E id \in IdArgs : seedVaultComponent(id)
    \/ \E id \in FindArgs : StartReview(id, "")
    \/ \E resp \in CoreResponses : ServiceSteady(resp) /\ AgentReturns(resp)
    \/ \E call \in LedgerCalls : ToolCall(call)

SpecSystem == InitSystem /\ [][NextSystem]_vars

----------------------------------------------------------------------------
(* One review cycle on a disk where the append to decisions.jsonl may throw *)

NextDisk ==
    \/ \E id \in {CompId(1), "ghost"}, z \in ZoneOptions : StartReview(id, z)
    \/ \E resp \in CoreResponses : rv.i < Len(AGENTS) /\ AgentReturns(resp)
    \/ \E resp \in CoreResponses, writable \in BOOLEAN :
           ReviewCompletes(resp, writable)

SpecDisk == InitCycle /\ [][NextDisk]_vars

----------------------------------------------------------------------------
(* One chat request whose client may close the connection *)

NextCancel ==
    \/ NextChat
    \/ Disconnect

SpecCancel == InitChat /\ [][NextCancel]_vars

----------------------------------------------------------------------------
(* The session store under the sweep *)

InitSessions ==
    /\ pipeline = PipelineAfter(1)
    /\ activityLog = LogAfter(1)
    /\ decisions = <<>>
    /\ clock = 0
    /\ rv = IdleReview
    /\ apiCalls = <<>>
    /\ budget = [lines |-> 0, reviews |-> 0]
    /\ ret = NoReturn
    /\ rin = [r \in RequestIds |-> IdleRequest]
    /\ rout = NoSessions
    /\ files = SeedFiles
    /\ changes = <<>>
    /\ chat = IdleChat

\* requests arrive while the clock leaves room for their session to expire;
\* their completion calls stay in flight
ArrivalsOpen ==
    clock + SESSION_TTL_MS + SWEEP_INTERVAL_MS <= MaxTicks * SWEEP_INTERVAL_MS

NextSweep ==
    \/ \E r \in RequestIds, id \in SessionIds : ArrivalsOpen /\ ChatArrives(r, id)
    \/ FiveMinutes
    \/ Sweep

SpecSweep == InitSessions /\ [][NextSweep]_vars

\* time passes and the timer keeps firing
SpecSweepFair == SpecSweep /\ WF_vars(FiveMinutes) /\ WF_vars(Sweep)

----------------------------------------------------------------------------
(* Chat requests of two sessions, interleaved *)

NextSessions ==
    \/ \E r \in RequestIds, id \in SessionIds : ChatArrives(r, id)
    \/ \E r \in RequestIds : ToolTurn(r)
    \/ \E r \in RequestIds : Answers(r)
    \/ \E r \in RequestIds : HandlerEnds(r)

SpecSessions == InitSessions /\ [][NextSessions]_vars

----------------------------------------------------------------------------
(* findComponent on the pipelines the operations produce *)

\* the names createComponent is called with: the create_component tool hands
\* toolInput.name over as it is, missing or not
CreateNames == {"Toggle", "Card", NoName}

FindInputs == FindArgs \cup {"TOGGLE", "card"}

InitFind ==
    /\ pipeline = EmptyPipeline
    /\ activityLog = <<>>
    /\ decisions = <<>>
    /\ clock = 0
    /\ rv = IdleReview
    /\ apiCalls = <<>>
    /\ budget = [lines |-> MaxLog, reviews |-> 0]
    /\ ret = NoReturn
    /\ rin = ""
    /\ rout = [evaluated |-> FALSE, result |-> FindOutcome(FALSE, FALSE, NoComponent, "")]
    /\ files = NoFiles
    /\ changes = <<>>
    /\ chat = IdleChat

NextFind ==
    \/ \E name \in CreateNames : createComponent(name)
    \/ \E id \in IdArgs : promoteComponent(id)
    \/ \E id \in IdArgs : seedVaultComponent(id)
    \/ \E arg \in FindInputs : FindEvaluates(arg)

SpecFind == InitFind /\ [][NextFind]_vars

----------------------------------------------------------------------------
(* One proposal under approvals and vetoes *)

\* the approvalsNeeded lists of the proposals
NeededLists == {AgentIds, {"ts", "pl", "ca"}, {}}

InitProposal ==
    /\ pipeline = EmptyPipeline
    /\ activityLog = <<>>
    /\ decisions = <<>>
    /\ clock = 0
    /\ rv = IdleReview
    /\ apiCalls = <<>>
    /\ budget = [lines |-> 0, reviews |-> 0]
    /\ ret = NoReturn
    /\ \E agent \in AgentIds, zone \in DOMAIN ZONE_RULES, needed \in NeededLists :
           rin = createProposal(agent, zone, needed)
    /\ rout = [agVetoed |-> FALSE]
    /\ files = NoFiles
    /\ changes = <<>>
    /\ chat = IdleChat

NextProposal ==
    \/ \E actorId \in AgentIds : Approves(actorId)
    \/ \E agentId \in AgentIds : Vetoes(agentId)

SpecProposal == InitProposal /\ [][NextProposal]_vars

----------------------------------------------------------------------------
(* The initiative registry under appends and queries *)

\* the records the callers append: a creation, transitions of an id, and a
\* transition without id
InitiativeRecords ==
    {[id |-> 0, event |-> "created", status |-> "proposed", category |-> "tooling"]}
    \cup {[id |-> id, event |-> t[1], status |-> t[2], category |-> "tooling"] :
              id \in {0, 1, 2},
              t \in {<<"activated", "active">>, <<"completed", "completed">>}}

InitiativeFilters ==
    {NoFilter, [NoFilter EXCEPT !.id = 1], [NoFilter EXCEPT !.status = "active"],
     [NoFilter EXCEPT !.category = "tooling"]}

InitInitiatives ==
    /\ pipeline = EmptyPipeline
    /\ activityLog = <<>>
    /\ decisions = <<>>
    /\ clock = 0
    /\ rv = IdleReview
    /\ apiCalls = <<>>
    /\ budget = [lines |-> 0, reviews |-> 0]
    /\ ret = NoReturn
    /\ rin = <<>>
    /\ rout = [nextId |-> 0, threw |-> FALSE, queried |-> FALSE, filter |-> NoFilter,
               result |-> <<>>]
    /\ files = NoFiles
    /\ changes = <<>>
    /\ chat = IdleChat

NextInitiatives ==
    \/ \E record \in InitiativeRecords : appendInitiative(record)
    \/ \E filter \in InitiativeFilters : Query(filter)
    \/ Tick

SpecInitiatives == InitInitiatives /\ [][NextInitiatives]_vars

----------------------------------------------------------------------------
(* Properties of the pipeline *)

\* the (zone, index) places of the pipeline document that hold component id
Places(state, id) ==
    {<<z, k>> \in ZoneArrays \X (1..MaxLog) :
        k <= Len(state[z]) /\ state[z][k].id = id}

\* the ids of the components in the pipeline document
IdsIn(state) == {state[z][k].id : <<z, k>> \in {<<z, k>> \in ZoneArrays \X (1..MaxLog) : k <= Len(state[z])}}

\* the zone following z in the lifecycle
Successor(z) ==
    CASE z = "nursery" -> "workshop"
      [] z = "workshop" -> "canopy"
      [] z = "canopy" -> "stable"

ActiveZones == {"nursery", "workshop", "canopy"}

\* C1: every component of the pipeline document is in exactly one zone array,
\* and its zone field names that array
ZoneMembershipAgrees ==
    \A id \in IdsIn(pipeline) :
        /\ Cardinality(Places(pipeline, id)) = 1
        /\ \A pl \in Places(pipeline, id) : pipeline[pl[1]][pl[2]].zone = pl[1]

\* C1 witness: a component was created, promoted, reviewed and promoted again
ReviewedThenPromoted ==
    /\ Len(pipeline.canopy) > 0
    /\ pipeline.canopy[1].agentReviews # <<>>
    /\ decisions # <<>>

\* C2: promote(id) of a component in nursery, workshop or canopy removes it from
\* that array, appends it to the array of the following zone with the zone field
\* and movedAt set, leaves the other components alone, and returns success with
\* the from and to zones
PromoteAdvancesOneZone ==
    [][\A id \in IdArgs : promoteComponent(id) => \A z \in ActiveZones :
          (\E k \in 1..Len(pipeline[z]) : pipeline[z][k].id = id)
          => LET k == CHOOSE k \in 1..Len(pipeline[z]) : pipeline[z][k].id = id
                 z2 == Successor(z)
                 n == Len(pipeline'[z2])
             IN /\ pipeline'[z] = RemoveAt(pipeline[z], k)
                /\ n = Len(pipeline[z2]) + 1
                /\ SubSeq(pipeline'[z2], 1, n - 1) = pipeline[z2]
                /\ pipeline'[z2][n].id = id
                /\ pipeline'[z2][n].name = pipeline[z][k].name
                /\ pipeline'[z2][n].zone = z2
                /\ pipeline'[z2][n].movedAt = clock
                /\ \A z3 \in ZoneArrays \ {z, z2} : pipeline'[z3] = pipeline[z3]
                /\ ret'.kind = "return" /\ ret'.success
                /\ ret'.from = z /\ ret'.to = z2
      ]_vars

\* C2 witness: a promotion into stable returned success, at a later clock
\* reading than the component's creation
PromotedToStable ==
    /\ ret.op = "promote" /\ ret.success /\ ret.from = "canopy" /\ ret.to = "stable"
    /\ \E k \in 1..Len(pipeline.stable) :
          pipeline.stable[k].id = ret.arg /\ pipeline.stable[k].movedAt > 0

\* C3: promote(id) of an id in no active zone array (absent, archived or
\* already stable) returns success = false and changes neither the pipeline
\* document nor the activity log
PromoteFailureIsInert ==
    [][\A id \in IdArgs :
          (promoteComponent(id) /\ \A z \in ActiveZones : Places(pipeline, id) \cap ({z} \X (1..MaxLog)) = {})
          => /\ ret'.op = "promote" /\ ret'.kind = "return" /\ ~ret'.success
             /\ pipeline' = pipeline
             /\ activityLog' = activityLog
      ]_vars

\* C3 witness: a promotion of a component that is already stable was refused
PromoteOfStableRefused ==
    /\ ret.op = "promote" /\ ret.kind = "return" /\ ~ret.success
    /\ \E k \in 1..Len(pipeline.stable) : pipeline.stable[k].id = ret.arg

\* the ids the activity log records as archived
ArchivedIds ==
    {activityLog[k].componentId :
        k \in {j \in 1..Len(activityLog) : activityLog[j].action = "seed-vaulted"}}

\* C4: a component in stable stays in stable whatever is called, and the id of
\* an archived component is in no zone array afterwards
StableAndVaultAbsorbing ==
    /\ [][\A id \in IdArgs :
             (\E k \in 1..Len(pipeline.stable) : pipeline.stable[k].id = id)
             => (\E k \in 1..Len(pipeline'.stable) :
                    pipeline'.stable[k].id = id /\ pipeline'.stable[k].zone = "stable")
       ]_vars
    /\ [](\A id \in ArchivedIds : Places(pipeline, id) = {})

\* C4 witness: an archive call on a stable component returned without success
ArchiveOfStableRefused ==
    /\ ret.op = "archive" /\ ret.kind = "return" /\ ~ret.success
    /\ \E k \in 1..Len(pipeline.stable) : pipeline.stable[k].id = ret.arg

----------------------------------------------------------------------------
(* Properties of the rule engine *)

\* the verdict the map gives agent a, "" when the map has no entry for a
VerdictOf(verdicts, a) ==
    IF \E k \in 1..Len(verdicts) : verdicts[k].agent = a
    THEN verdicts[CHOOSE k \in 1..Len(verdicts) : verdicts[k].agent = a].verdict
    ELSE ""

\* the agents of the map whose verdict is not approved
NotApproving(verdicts) ==
    {verdicts[k].agent : k \in {j \in 1..Len(verdicts) : verdicts[j].verdict # "approved"}}

\* the number of approved verdicts of the map
ApprovedCount(verdicts) ==
    Cardinality({k \in 1..Len(verdicts) : verdicts[k].verdict = "approved"})

\* the elements of a sequence
Range(seq) == {seq[k] : k \in 1..Len(seq)}

\* {ts:approved, ag:needs-work, pl:approved, ca:needs-work, px:approved}
ToggleVerdicts ==
    <<[agent |-> "ts", verdict |-> "approved"], [agent |-> "ag", verdict |-> "needs-work"],
      [agent |-> "pl", verdict |-> "approved"], [agent |-> "ca", verdict |-> "needs-work"],
      [agent |-> "px", verdict |-> "approved"]>>

\* C5: in canopy, a vetoed verdict of ag fails the approval whatever the other
\* verdicts are
VetoFailsCanopy ==
    (rout.evaluated /\ rin.zone = "canopy" /\ VerdictOf(rin.verdicts, "ag") = "vetoed")
    => ~rout.result.passed

\* C5 witness: canopy was evaluated with ag vetoed and the four others approved
VetoAgainstFourApprovals ==
    /\ rout.evaluated /\ rin.zone = "canopy" /\ Len(rin.verdicts) = 5
    /\ VerdictOf(rin.verdicts, "ag") = "vetoed"
    /\ NotApproving(rin.verdicts) = {"ag"}

\* C6: in canopy without a veto of ag, the approval passes iff every verdict is
\* approved, and a failure names exactly the agents that did not approve
UnanimityInCanopy ==
    (rout.evaluated /\ rin.zone = "canopy" /\ VerdictOf(rin.verdicts, "ag") # "vetoed")
    => /\ rout.result.passed <=> NotApproving(rin.verdicts) = {}
       /\ ~rout.result.passed
          => /\ rout.result.reason.kind = "unanimous-missing"
             /\ Range(rout.result.reason.agents) = NotApproving(rin.verdicts)
             /\ Len(rout.result.reason.agents) = Cardinality(NotApproving(rin.verdicts))

\* C6 witness: the Toggle verdicts evaluated in canopy fail and name ag and ca
ToggleFailsCanopy ==
    /\ rout.evaluated /\ rin.zone = "canopy" /\ rin.verdicts = ToggleVerdicts
    /\ ~rout.result.passed
    /\ rout.result.reason.agents = <<"ag", "ca">>

NurseryAlwaysPasses ==
    (rout.evaluated /\ rin.zone = "nursery") => rout.result.passed

\* C8 witness: nursery was evaluated on a map in which ag vetoed and nobody approved
NurseryPassesDespiteVeto ==
    /\ rout.evaluated /\ rin.zone = "nursery" /\ rout.result.passed
    /\ VerdictOf(rin.verdicts, "ag") = "vetoed"
    /\ ApprovedCount(rin.verdicts) = 0 /\ Len(rin.verdicts) = 5

----------------------------------------------------------------------------
(* Properties of the review cycle *)

\* a review cycle has returned its result to the caller
ReviewReturned == ret.op = "review" /\ ret.kind = "return"

\* every agent of the returned cycle was unavailable
AllUnavailable ==
    \A k \in 1..Len(ret.agentReviews) : ret.agentReviews[k].verdict = "api-unavailable"

\* C9: a failed completion call yields the verdict api-unavailable, which is
\* never counted as an approval, and a cycle in which every agent was
\* unavailable is not reported as passed or approved, whatever the zone
UnavailableNeverPasses ==
    ReviewReturned
    => /\ \A k \in 1..Len(ret.agentReviews) :
             ret.agentReviews[k].action = "api-unavailable"
             => ret.agentReviews[k].verdict = "api-unavailable"
       /\ ret.zoneVerdict.reason.kind \in {"majority-achieved", "majority-required"}
          => ret.zoneVerdict.reason.approved
                 = Cardinality({k \in 1..Len(ret.agentReviews) :
                                   ret.agentReviews[k].verdict = "approved"})
       /\ AllUnavailable
          => ~ret.zoneVerdict.passed /\ ret.overallVerdict # "approved"

ToggleStored == findComponent(pipeline, CompId(1)).component

\* the completion calls issued so far are the first agents of the registry
CallsFollowRegistry ==
    /\ Len(apiCalls) <= Len(AGENTS)
    /\ \A k \in 1..Len(apiCalls) : apiCalls[k] = AGENTS[k]

\* C11: in one cycle the completion calls are issued for ts, ag, pl, ca, px in
\* that order and once each; a call is issued only when every earlier call has
\* been answered or has failed; the verdicts the cycle stores on the component
\* and in the decision record are in that order
AgentsCalledInOrder ==
    /\ [](CallsFollowRegistry)
    /\ [](rv.pc = "awaiting"
            => Len(apiCalls) = rv.i /\ Len(rv.agentReviews) = rv.i - 1)
    /\ [][apiCalls' # apiCalls
            => /\ apiCalls' = Append(apiCalls, AGENTS[Len(apiCalls) + 1])
               /\ Len(rv'.agentReviews) = Len(apiCalls)
               /\ AgentsOf(rv'.agentReviews) = apiCalls
       ]_vars
    /\ [](ReviewReturned
            => /\ apiCalls = AGENTS
               /\ AgentsOf(ToggleStored.agentReviews) = AGENTS
               /\ AgentsOf(decisions[Len(decisions)].agents) = AGENTS)

\* C11 witness: a cycle returned in which the call of ag failed and pl was
\* called after it and approved, with five calls made in all
CalledOnceDespiteFailure ==
    /\ ReviewReturned
    /\ apiCalls = AGENTS
    /\ ret.agentReviews[2].action = "api-unavailable"
    /\ ret.agentReviews[3].verdict = "approved"
    /\ AgentsOf(ToggleStored.agentReviews) = AGENTS

\* the step in which a review cycle in flight ends
CycleCompletes == rv.pc = "awaiting" /\ rv'.pc = "idle"

\* the activity lines written by review cycles
ReviewLines == SelectSeq(activityLog, LAMBDA e : e.action = "governance-review")

StoredVerdicts(d) ==
    [k \in 1..Len(d.agents) |-> [agent |-> d.agents[k].agent, verdict |-> d.agents[k].verdict]]

\* C13: the zone verdict of every decision record is the approval function
\* applied to the zone and the agent-to-verdict map stored in that record, and
\* the verdict returned to the caller and the one stored on the component are
\* that same value
VerdictRederivable ==
    /\ \A k \in 1..Len(decisions) :
          decisions[k].zoneVerdict
              = checkZoneApproval(decisions[k].zone, StoredVerdicts(decisions[k]))
    /\ ReviewReturned
          => /\ ret.zoneVerdict = decisions[Len(decisions)].zoneVerdict
             /\ ToggleStored.lastZoneVerdict = ret.zoneVerdict

\* C13 witness: a review of the nursery component under the canopy rules was
\* recorded as failed for want of unanimity
OverrideDecisionStored ==
    /\ Len(decisions) = 1
    /\ decisions[1].zone = "canopy"
    /\ ToggleStored.zone = "nursery"
    /\ ~decisions[1].zoneVerdict.passed
    /\ decisions[1].zoneVerdict.reason.kind = "unanimous-missing"

----------------------------------------------------------------------------
(* Properties of the parser *)

\* C14: a payload that JSON.parse rejects yields needs-work with score 0 and a
\* rationale that carries the parse-error marker and at most the first 200
\* characters of the payload; api-unavailable is the verdict of a failed call
\* and of nothing else, and a failed call carries no parse-error marker
GarbageIsNeedsWork ==
    /\ (rout.evaluated /\ rin.ok /\ ~rin.raw.json)
          => /\ rout.result.verdict = "needs-work"
             /\ rout.result.score = 0
             /\ rout.result.parseError
             /\ rout.result.preview <= 200
             /\ rout.result.preview <= rin.raw.length
             /\ rout.result.preview = 200 \/ rout.result.preview = rin.raw.length
    /\ rout.evaluated
          => /\ rout.result.verdict = "api-unavailable" <=> ~rin.ok
             /\ ~rin.ok => ~rout.result.parseError

\* C14 witness: a payload of 250 characters that is not JSON was parsed and
\* 200 characters of it were quoted
LongGarbageParsed ==
    /\ rout.evaluated /\ rin.ok /\ ~rin.raw.json /\ rin.raw.length = 250
    /\ rout.result.verdict = "needs-work" /\ rout.result.preview = 200

\* C15: for every payload JSON.parse accepts, the verdict is the payload's
\* verdict when that is approved, needs-work or vetoed and needs-work
\* otherwise, and the score is the payload's score clamped into 0..100 when it
\* is a number and 50 otherwise
DecodedIsLegalAndClamped ==
    (rout.evaluated /\ rin.ok /\ rin.raw.json)
    => /\ rout.result.verdict \in LegalVerdicts
       /\ rin.raw.verdict \in LegalVerdicts => rout.result.verdict = rin.raw.verdict
       /\ rin.raw.verdict \notin LegalVerdicts => rout.result.verdict = "needs-work"
       /\ rout.result.score \in 0..100
       /\ rin.raw.numericScore
             => rout.result.score
                  = (IF rin.raw.score < 0 THEN 0
                     ELSE IF rin.raw.score > 100 THEN 100 ELSE rin.raw.score)
       /\ ~rin.raw.numericScore => rout.result.score = 50

----------------------------------------------------------------------------
(* Properties of the tools *)

\* the calls of a tool that create or modify something on disk
StorageWrites == {"mkdirSync", "writeFileSync", "addWikiEntry", "appendChange", "logActivity"}

\* the reasons with which validateWritePath denies
Denials == {"traversal", "protected-file", "protected-prefix", "patch-only", "not-in-allowlist"}

\* the disk is as it was before the tool ran
DiskUntouched == files \in {NoFiles, SeedFiles} /\ changes = <<>> /\ activityLog = <<>>

\* C19: a write-type tool calls validateWritePath before any call that
\* creates or modifies something on disk, and when the validator denies, the
\* files, the change ledger and the activity log are as they were
WriteToolsValidateFirst ==
    (rout.evaluated /\ rin.tool \in WriteTools)
    => /\ \A k \in 1..Len(rout.result.steps) :
             rout.result.steps[k] \in StorageWrites
             => \E j \in 1..(k - 1) : rout.result.steps[j] = "validateWritePath"
       /\ (rout.result.result.error /\ rout.result.result.reason \in Denials)
             => DiskUntouched

----------------------------------------------------------------------------
(* Properties of the tool loop *)

\* agenticChatResponse has returned
Finished == chat.pc \in {"returned", "closed"}

\* no completion call of the request failed
NoCallFailed == \A k \in 1..Len(chat.calls) : chat.calls[k].outcome # "failed"

\* the completion service asked for tools on every turn up to the bound
ToolUseEveryTurn ==
    /\ Len(chat.calls) >= MAX_TOOL_TURNS
    /\ \A k \in 1..MAX_TOOL_TURNS : chat.calls[k].outcome = "tool_use"

LastEvent == chat.events[Len(chat.events)]

\* at most MAX_TOOL_TURNS calls with tools and one without; after tool_use
\* on every turn and no failure, the request ends with the sixth call made
\* without tools and the done event, carrying finalText, as its last event
LoopBounded ==
    /\ Len(SelectSeq(chat.calls, LAMBDA c : c.tools)) <= MAX_TOOL_TURNS
    /\ Len(SelectSeq(chat.calls, LAMBDA c : ~c.tools)) <= 1
    /\ (Finished /\ ToolUseEveryTurn /\ NoCallFailed)
          => /\ Len(chat.calls) = MAX_TOOL_TURNS + 1
             /\ ~chat.calls[MAX_TOOL_TURNS + 1].tools
             /\ chat.events # <<>>
             /\ LastEvent = Event("done", 0, TRUE, chat.finalText)

\* C16: the tool loop always terminates: never more than 5 completion calls
\* with tools; when the service asks for a tool on every turn, a sixth call
\* without tools follows and the stream ends with the done event carrying
\* the final text; and every request reaches its end.
LoopTerminates == [](LoopBounded) /\ <>(chat.pc = "closed")

\* a request that got tool_use on all five turns has ended with done
FiveToolTurnsDone ==
    /\ chat.pc = "closed"
    /\ ToolUseEveryTurn
    /\ Len(chat.calls) = MAX_TOOL_TURNS + 1
    /\ LastEvent.type = "done"
    /\ Len(chat.executed) >= MAX_TOOL_TURNS


\* the tool_start and tool_result events of the stream, in order
ToolEvents == SelectSeq(chat.events, LAMBDA e : e.type \in {"tool_start", "tool_result"})

\* the tool-use ids a response asks for, in order
ToolUseIds(content) ==
    LET uses == SelectSeq(content, LAMBDA b : b.type = "tool_use")
    IN [k \in 1..Len(uses) |-> uses[k].id]

ResultIds(results) == [k \in 1..Len(results) |-> results[k].id]

\* the assistant/user pairs pushed so far
Pairs == (Len(chat.loopMessages) - 1) \div 2

InTurn == chat.pc \in {"blocks", "started", "executed"}

\* tool_start and tool_result alternate, each tool_result carrying the id of
\* the tool_start before it, and no id starts twice
EventsPaired ==
    /\ \A j \in 1..Len(ToolEvents) :
          IF j % 2 = 1 THEN ToolEvents[j].type = "tool_start"
          ELSE /\ ToolEvents[j].type = "tool_result"
               /\ ToolEvents[j].id = ToolEvents[j - 1].id
    /\ \A j, k \in 1..Len(ToolEvents) :
          (j # k /\ ToolEvents[j].type = ToolEvents[k].type)
          => ToolEvents[j].id # ToolEvents[k].id

\* the k-th tool executed is the one the k-th tool_start announced, and its
\* tool_result is not out before it ran
StartExecuteResult ==
    /\ Len(ToolEvents) \div 2 <= Len(chat.executed)
    /\ Len(chat.executed) <= (Len(ToolEvents) + 1) \div 2
    /\ \A k \in 1..Len(chat.executed) : chat.executed[k] = ToolEvents[2 * k - 1].id

\* the history is the user's message followed by assistant/user pairs, the
\* user message of a pair holding one tool_result per tool_use block of the
\* assistant message, same ids, same order; a completion call finds the pairs
\* of all turns before it in the history
HistoryFollows ==
    /\ Len(chat.loopMessages) % 2 = (IF chat.pc = "idle" THEN 0 ELSE 1)
    /\ \A k \in 1..Pairs :
          LET assistant == chat.loopMessages[2 * k]
              user == chat.loopMessages[2 * k + 1]
          IN /\ assistant.role = "assistant"
             /\ user.role = "user"
             /\ ResultIds(user.results) = ToolUseIds(assistant.content)
    /\ \A k \in 1..Len(chat.calls) : k <= Pairs + 1
    /\ chat.pc \in {"calling", "finalcall"} => Len(chat.calls) = Pairs
    /\ InTurn => /\ Len(chat.calls) = Pairs + 1
                 /\ ResultIds(chat.toolResults)
                      = ToolUseIds(SubSeq(chat.content, 1, chat.idx - 1))

\* C17: for every tool call of a turn the tool_start event is out before the
\* tool runs, exactly one tool_result event with the same id follows before
\* the next tool_start, and one tool_result entry per call, same id and same
\* order, is in the history after the assistant message and before the next
\* completion call.
ToolEventsAndHistoryOrdered == EventsPaired /\ StartExecuteResult /\ HistoryFollows

\* a turn with two tool calls, one of them failing, went into the history and
\* the next completion call was made
TwoToolTurnInHistory ==
    /\ Len(chat.calls) >= 2
    /\ \E k \in 1..Pairs :
          /\ Len(chat.loopMessages[2 * k + 1].results) = 2
          /\ chat.loopMessages[2 * k + 1].results[1].content.error
          /\ k < Len(chat.calls)


\* a completion call of the request failed
CallFailed == \E k \in 1..Len(chat.calls) : chat.calls[k].outcome = "failed"

EventTypes == {chat.events[k].type : k \in 1..Len(chat.events)}

\* after a failed call: it is the last call, agenticChatResponse has
\* returned, the stream holds an error event and no done event
FailureAborts ==
    CallFailed
    => /\ chat.calls[Len(chat.calls)].outcome = "failed"
       /\ Finished
       /\ "error" \in EventTypes
       /\ "done" \notin EventTypes

\* after a failed call no step makes a completion call, runs a tool, touches
\* the disk or writes an event to the stream
NothingAfterFailure ==
    CallFailed
    => /\ chat'.calls = chat.calls
       /\ chat'.executed = chat.executed
       /\ chat'.events = chat.events
       /\ UNCHANGED <<files, changes, activityLog>>

\* C18: when a completion call of the tool loop fails, the loop is aborted at
\* once: an error event is emitted, no done event is emitted, and no further
\* completion call or tool execution takes place in the request.
FailedCallAbortsLoop == [](FailureAborts) /\ [][NothingAfterFailure]_vars

\* the completion call of a later turn failed, after tools had run
FailedAfterTools ==
    /\ CallFailed
    /\ Len(chat.calls) >= 2
    /\ chat.executed # <<>>
    /\ chat.pc = "closed"


\* the tool names executeTool has a case for, among those of the model
KnownTools == WriteTools \cup {"get_activity_log"}

\* the required fields (input_schema.required of CHAT_TOOLS) a tool input
\* lacks
MissingFields(block) ==
    LET required ==
          CASE block.name \in {"write_component_css", "write_component_spec",
                               "write_token_file", "update_wiki"} -> {"name", "content"}
            [] block.name = "patch_css" -> {"path", "content"}
            [] block.name = "update_terrarium_css" -> {"name"}
            [] OTHER -> {}
    IN {f \in required :
          \/ f = "name" /\ block.input.name = Undefined
          \/ f = "path" /\ block.input.path.segs = Undefined
          \/ f = "content" /\ block.input.content = Undefined}

\* a patch_css call on a path validateWritePath denies
PathRejected(block) ==
    /\ block.name = "patch_css"
    /\ block.input.path.segs # Undefined
    /\ ~validateWritePath(block.input.path, "patch").allowed

\* an unknown tool name, a rejected path, or missing tool input
BadCall(block) ==
    \/ block.name \notin KnownTools
    \/ PathRejected(block)
    \/ MissingFields(block) # {}

\* the tool_use blocks asked for so far in the request
BlocksSoFar ==
    {chat.content[k] : k \in 1..Len(chat.content)}
    \cup UNION {{chat.loopMessages[j].content[k] :
                   k \in 1..Len(chat.loopMessages[j].content)} :
                j \in 1..Len(chat.loopMessages)}

BlockOf(id) == CHOOSE b \in BlocksSoFar : b.type = "tool_use" /\ b.id = id

\* the tool_result entries of the history and of the turn in hand
ResultsSoFar ==
    UNION {{chat.loopMessages[j].results[k] :
              k \in 1..Len(chat.loopMessages[j].results)} :
           j \in 1..Len(chat.loopMessages)}
    \cup {chat.toolResults[k] : k \in 1..Len(chat.toolResults)}

\* C20: executeTool never throws to the loop: an unknown tool name, a
\* rejected path, or missing or malformed tool input yields an {error}
\* result, the tool_result event carries success = false, the error is the
\* tool result in the history, and the loop goes on: only a failed
\* completion call puts an error event on the stream.
BadToolCallsYieldErrors ==
    /\ \A j \in 1..Len(chat.events) :
          (chat.events[j].type = "tool_result" /\ BadCall(BlockOf(chat.events[j].id)))
          => ~chat.events[j].success
    /\ \A r \in ResultsSoFar : BadCall(BlockOf(r.id)) => r.content.error
    /\ "error" \in EventTypes => CallFailed


----------------------------------------------------------------------------
(* Properties of the ledgers *)

\* an entry as it comes back from JSON: without its undefined properties
Defined(entry) == SelectSeq(entry, LAMBDA p : p[2] # "undefined")

\* the records of the well-formed lines the file held at the start
EarlierRecords ==
    LET kept == SelectSeq(rin.lines, LAMBDA kind : kind = "record")
    IN [k \in 1..Len(kept) |-> EarlierRecord]

\* C21: reading a ledger returns exactly the well-formed records that were
\* appended, in append order: the records of the well-formed lines the file
\* held, then the N entries appended, N records for N appends; lines that do
\* not parse are skipped and the read does not fail.
LedgerRoundTrip ==
    (rout.evaluated /\ rin.filter = <<>>)
    => rout.read = EarlierRecords
                   \o [k \in 1..Len(rout.returned) |-> Defined(rout.returned[k])]

\* two records were appended behind a line that does not parse and read back
ReadPastGarbage ==
    /\ rout.evaluated
    /\ rin.filter = <<>>
    /\ rin.lines = <<"record", "garbage">>
    /\ Len(rout.returned) = 2
    /\ Len(rout.read) = 3
    /\ rout.returned[1] # rout.returned[2]

IsPrefix(s, t) == Len(s) <= Len(t) /\ SubSeq(t, 1, Len(s)) = s

\* C22: ledgers only grow: over every step of the system (create, promote,
\* archive, the steps of a review cycle, chat tool calls on any path, write
\* and patch tools aimed at a ledger file among them) the content the
\* decisions, changes and activity ledgers had before the step is a prefix of
\* their content after it, and no tool has written a file at a ledger's path.
LedgersOnlyGrow ==
    [][/\ IsPrefix(decisions, decisions')
       /\ IsPrefix(changes, changes')
       /\ IsPrefix(activityLog, activityLog')
       /\ \A f \in files' : f.path \notin LedgerPaths]_vars

\* all three ledgers have grown, the change ledger through a tool that wrote,
\* and the files on disk are those of the start and the one the tool wrote
LedgersGrown ==
    /\ decisions # <<>>
    /\ Len(changes) > Len(EarlierChanges)
    /\ IsPrefix(EarlierChanges, changes)
    /\ Len(activityLog) >= 3
    /\ files # SeedFiles

----------------------------------------------------------------------------
(* Properties of the pipeline operations *)

\* the ids createComponent has handed out, in order: its "submitted" lines
IssuedIds ==
    LET lines == SelectSeq(activityLog, LAMBDA e : e.action = "submitted")
    IN [k \in 1..Len(lines) |-> lines[k].componentId]

\* no id was handed out twice, the components of the pipeline carry handed-out
\* ids, each its own, and the counter is past every id handed out
IdsNeverRepeat ==
    /\ \A j, k \in 1..Len(IssuedIds) : j # k => IssuedIds[j] # IssuedIds[k]
    /\ \A z \in DOMAIN zoneOrder : \A k \in 1..Len(pipeline[zoneOrder[z]]) :
          /\ pipeline[zoneOrder[z]][k].id \in Range(IssuedIds)
          /\ \A y \in DOMAIN zoneOrder : \A j \in 1..Len(pipeline[zoneOrder[y]]) :
                (y # z \/ j # k)
                => pipeline[zoneOrder[y]][j].id # pipeline[zoneOrder[z]][k].id
    /\ \A n \in 1..MaxComponents :
          CompId(n) \in Range(IssuedIds) => n < pipeline.nextId

\* createComponent puts the new component last in nursery, with the id made
\* from the counter, an id not handed out before, and moves the counter up
CreateTakesNextId ==
    \A name \in Names :
      createComponent(name)
      => /\ pipeline'.nextId > pipeline.nextId
         /\ Len(pipeline'.nursery) = Len(pipeline.nursery) + 1
         /\ pipeline'.nursery[Len(pipeline'.nursery)].id = CompId(pipeline.nextId)
         /\ pipeline'.nursery[Len(pipeline'.nursery)].zone = "nursery"
         /\ CompId(pipeline.nextId) \notin Range(IssuedIds)
         /\ \A z \in {"workshop", "canopy", "stable"} : pipeline'[z] = pipeline[z]

\* C23: create always inserts the new component into nursery with an id taken
\* from the persisted next-id counter: the counter strictly increases with
\* every create, no two components ever receive the same id, and an id is
\* never reused after its component was promoted or archived.
CreateIdsMonotonic == [](IdsNeverRepeat) /\ [][CreateTakesNextId]_vars

\* a component was created after the first one had been promoted and archived
CreatedAfterArchive ==
    /\ Len(activityLog) = 4
    /\ activityLog[1].action = "submitted"
    /\ activityLog[2].action = "promoted"
    /\ activityLog[3].action = "seed-vaulted"
    /\ activityLog[4].action = "submitted"
    /\ activityLog[2].componentId = activityLog[1].componentId
    /\ activityLog[3].componentId = activityLog[1].componentId
    /\ Len(pipeline.nursery) = 1

\* the activity line a transition writes
TransitionLine(op) ==
    CASE op = "create" -> "submitted"
      [] op = "promote" -> "promoted"
      [] OTHER -> "seed-vaulted"

----------------------------------------------------------------------------
(* Properties of a failing disk *)

\* the step in which a review cycle ends without a decision record written
DecisionAppendFailed ==
    /\ rv.pc = "awaiting"
    /\ rv.i = Len(AGENTS)
    /\ rv'.pc = "idle"
    /\ decisions' = decisions

\* what the caller of runGovernanceReview gets: a result with a decision id
ReportedCompleted(r) ==
    /\ r.op = "review"
    /\ r.kind = "return"
    /\ r.success
    /\ r.decisionId # <<>>

\* C25: when appending the decision record of a review cycle fails, the
\* cycle is not reported to its caller as a completed review with a decision
\* id
FailedAppendNotCompleted ==
    [][DecisionAppendFailed => ~ReportedCompleted(ret')]_vars

----------------------------------------------------------------------------
(* Properties of a cancelled chat request *)

\* the positions at which a completion call is in flight
AwaitingCompletion == {"calling", "finalcall"}

\* C26: once the caller has closed the connection, the request makes no
\* further completion call, executes no further tool and writes no further
\* file, ledger or pipeline data
CancelAbortsLoop ==
    [][chat.disconnected =>
          /\ chat'.pc \in AwaitingCompletion => chat'.pc = chat.pc
          /\ chat'.executed = chat.executed
          /\ files' = files
          /\ changes' = changes
          /\ activityLog' = activityLog
          /\ decisions' = decisions
          /\ pipeline' = pipeline]_vars

----------------------------------------------------------------------------
(* Properties of the session store *)

\* a step of the timer: no request moves and no time passes
TimerStep == rin' = rin /\ clock' = clock

\* the persisted data: pipeline file, ledgers and project files
Persisted == <<pipeline, activityLog, decisions, changes, files>>

\* C27 (safety): a session leaves the store exactly in a sweep that finds its
\* last access more than SESSION_TTL_MS back, and a sweep changes no
\* persisted data
SweepRemovesExpiredOnly ==
    [][/\ \A id \in SessionIds :
             rout[id].live =>
                (~rout'[id].live <=>
                    (TimerStep /\ clock - rout[id].lastAccessedAt > SESSION_TTL_MS))
       /\ TimerStep => Persisted' = Persisted]_vars

\* C27 (liveness): a session no request touches any more is removed in the
\* end
IdleSessionRemoved ==
    \A id \in SessionIds : rout[id].live ~> ~rout[id].live

\* C27: the sweep removes exactly the sessions idle for more than the
\* window, removes every idle session in the end, and touches no persisted
\* data
SweepExpiresIdleSessions == SweepRemovesExpiredOnly /\ IdleSessionRemoved

\* a session survives the sweep at exactly the window after its last access
\* while another, accessed earlier, is removed by it
SweptAtTheWindow ==
    \E a, b \in SessionIds :
        /\ rout[a].live
        /\ rout[a].lastAccessedAt > 0
        /\ clock - rout[a].lastAccessedAt = SESSION_TTL_MS
        /\ ~rout[b].live
        /\ \E r \in RequestIds : rin[r].sessionId = b

\* the turns a request has used, read off its loopMessages: every tool turn
\* pushed one assistant message
TurnsUsed(r) ==
    Len(SelectSeq(rin[r].loopMessages, LAMBDA m : m.role = "assistant"))

\* C28 (histories): a session holds messages of its own conversation only,
\* and a request carries messages of its own session only
HistoriesApart ==
    /\ \A id \in SessionIds :
          \A k \in 1..Len(rout[id].messages) : rout[id].messages[k].session = id
    /\ \A r \in RequestIds :
          \A k \in 1..Len(rin[r].loopMessages) :
              rin[r].loopMessages[k].session = rin[r].sessionId

\* C28 (turn counters): a request's counter counts its own tool turns and
\* stays within the bound of 5, whatever the other request has used
OwnTurnCounter ==
    \A r \in RequestIds :
        /\ rin[r].turn <= MAX_TOOL_TURNS
        /\ rin[r].pc = "calling" => rin[r].turn = TurnsUsed(r)
        /\ TurnsUsed(r) <= MAX_TOOL_TURNS

\* C28 (steps): a step of one request changes no other request and no
\* session but the one of its own id
StepsStayInSession ==
    [][\A r \in RequestIds :
          rin'[r] # rin[r] =>
             /\ \A q \in RequestIds \ {r} : rin'[q] = rin[q]
             /\ \A id \in SessionIds \ {rin'[r].sessionId, rin[r].sessionId} :
                    rout'[id] = rout[id]]_vars

\* C28: conversations are isolated by session id and every request has its
\* own turn counter
SessionsIsolated == [](HistoriesApart /\ OwnTurnCounter) /\ StepsStayInSession

\* two requests of different sessions in flight, one at the bound of its
\* tool turns, the other with all of its turns still to use
InterleavedAtTheBound ==
    /\ rin["r1"].sessionId = "s1"
    /\ rin["r2"].sessionId = "s2"
    /\ rin["r1"].pc = "finalcall"
    /\ TurnsUsed("r1") = MAX_TOOL_TURNS
    /\ rin["r2"].pc = "calling"
    /\ rin["r2"].turn = 0
    /\ Len(rout["s1"].messages) = 1
    /\ Len(rout["s2"].messages) = 1

----------------------------------------------------------------------------
(* Properties of findComponent *)

\* the places <<zone, index>> of the components that have the id arg or, with
\* a name, the name arg ignoring case
Matches(state, arg) ==
    {p \in ZoneArrays \X (1..MaxComponents) :
        /\ p[2] <= Len(state[p[1]])
        /\ LET c == state[p[1]][p[2]]
           IN \/ c.id = arg
              \/ c.name # NoName /\ toLowerCase(c.name) = toLowerCase(arg)}

\* C29: find returns a matching component of the four zones with the zone
\* that holds it, and an explicit not-found when there is none; it never
\* throws
FindReturnsMatchOrNotFound ==
    [][rout' # rout =>
          LET r == rout'.result
          IN /\ ~r.threw
             /\ r.found <=> Matches(pipeline, rin') # {}
             /\ r.found => \E p \in Matches(pipeline, rin') :
                               /\ r.zone = p[1]
                               /\ r.component = pipeline[p[1]][p[2]]]_vars

----------------------------------------------------------------------------
(* Properties of promotion *)

\* the agents of a decision record that approved
Approvals(entry) ==
    Cardinality({k \in 1..Len(entry.agents) : entry.agents[k].verdict = "approved"})

\* the component has a review of the zone on record with at least n approvals
ApprovedIn(id, zone, n) ==
    \E k \in 1..Len(decisions) :
        /\ decisions[k].componentPipelineId = id
        /\ decisions[k].zone = zone
        /\ Approvals(decisions[k]) >= n

\* C30: a component leaves workshop for canopy only with 3 of 5 approvals in
\* its workshop review, and canopy for stable only with 5 of 5
PromotionGated ==
    [][(ret'.op = "promote" /\ ret'.success /\ pipeline' # pipeline) =>
          /\ ret'.from = "workshop" => ApprovedIn(ret'.component.id, "workshop", 3)
          /\ ret'.from = "canopy" => ApprovedIn(ret'.component.id, "canopy", 5)]_vars

----------------------------------------------------------------------------
(* Properties of the veto in workshop *)

\* C31: in workshop, a vetoed verdict of ag fails the approval whatever the
\* other verdicts are
VetoFailsWorkshop ==
    (rout.evaluated /\ rin.zone = "workshop" /\ VerdictOf(rin.verdicts, "ag") = "vetoed")
    => ~rout.result.passed

----------------------------------------------------------------------------
(* Properties of proposals *)

\* C32: once ag has vetoed a proposal of a zone with the veto active, no
\* action of the other agents stages it, and its compliance check fails
VetoedNeverStaged ==
    (rout.agVetoed /\ rin.zoneRules.agVeto)
    => /\ rin.status # "staged"
       /\ ~checkCompliance(rin).ok

----------------------------------------------------------------------------
(* Properties of stable components *)

\* no review cycle is in flight for a component it found in stable
NoAgentsOnStable == rv.pc = "awaiting" => rv.component.zone # "stable"

\* the stored snapshot and zone verdict of a stable component stay as they are
StableSnapshotKept ==
    \A k \in 1..Len(pipeline.stable) :
        \A j \in 1..Len(pipeline'.stable) :
            pipeline'.stable[j].id = pipeline.stable[k].id
            => /\ pipeline'.stable[j].agentReviews = pipeline.stable[k].agentReviews
               /\ pipeline'.stable[j].lastZoneVerdict = pipeline.stable[k].lastZoneVerdict

\* C33: a review request on a stable component runs no agent, and no review
\* cycle overwrites the snapshot and zone verdict of a stable component
StableShieldedFromReview == [](NoAgentsOnStable) /\ [][StableSnapshotKept]_vars

----------------------------------------------------------------------------
(* Properties of the write tools' records *)

\* the tool call wrote a file and returned success
WroteSuccessfully ==
    /\ rout.evaluated
    /\ rin.tool \in WriteTools
    /\ ~rout.result.threw
    /\ ~rout.result.result.error
    /\ \E k \in 1..Len(rout.result.steps) :
           rout.result.steps[k] \in {"writeFileSync", "addWikiEntry"}

\* C34: a successful write of a chat write tool appends one record to the
\* change ledger and one line to the activity log
WritesAreRecorded ==
    WroteSuccessfully => Len(changes) = 1 /\ Len(activityLog) = 1

----------------------------------------------------------------------------
(* Properties of the completion calls of one request *)

\* the calls made with and without the tool registry
WithTools == SelectSeq(chat.calls, LAMBDA c : c.tools)

WithoutTools == SelectSeq(chat.calls, LAMBDA c : ~c.tools)

\* the tool-free call has been made: it is in flight or has settled
FinalCallMade == chat.pc = "finalcall" \/ WithoutTools # <<>>

\* the calls with tools so far number MAX_TOOL_TURNS and each asked for tools
FiveToolRequests ==
    /\ Len(WithTools) = MAX_TOOL_TURNS
    /\ \A k \in 1..MAX_TOOL_TURNS : WithTools[k].outcome = "tool_use"

\* at most 5 calls with tools, one without, 6 in all; the call without tools
\* is made exactly after five tool requests and comes last
CallBudget ==
    /\ Len(WithTools) <= MAX_TOOL_TURNS
    /\ Len(WithoutTools) <= 1
    /\ Len(chat.calls) <= MAX_TOOL_TURNS + 1
    /\ FinalCallMade => FiveToolRequests
    /\ (FiveToolRequests /\ Finished) => Len(WithoutTools) = 1
    /\ WithoutTools # <<>> => ~chat.calls[Len(chat.calls)].tools

\* after the call without tools no tool is executed and no call is made
NothingAfterFinalCall ==
    FinalCallMade => /\ chat'.executed = chat.executed
                     /\ Len(chat'.calls) <= MAX_TOOL_TURNS + 1
                     /\ chat'.pc \in {"finalcall", "returned", "closed"}

\* C35: at most 5 completion calls with tools and at most one without; the
\* tool-free call is made if and only if all 5 turns ended with a tool
\* request, and no tool runs after it
CallsWithinBudget == [](CallBudget) /\ [][NothingAfterFinalCall]_vars

\* the tool-free call has settled after five turns of tool requests, each of
\* which ran a tool
FinalCallSettled ==
    /\ chat.pc = "returned"
    /\ Len(chat.calls) = MAX_TOOL_TURNS + 1
    /\ Len(WithoutTools) = 1
    /\ Len(chat.executed) >= MAX_TOOL_TURNS

----------------------------------------------------------------------------
(* Properties of the event stream *)

\* the done and error events of the stream
TerminalEvents == SelectSeq(chat.events, LAMBDA e : e.type \in {"done", "error"})

\* C36: the stream has at most one terminal event, which is its last event; a
\* finished request has exactly one; and nothing is written to the response
\* after it was ended
OneTerminalEvent ==
    /\ Len(TerminalEvents) <= 1
    /\ TerminalEvents # <<>> => chat.events[Len(chat.events)] = TerminalEvents[1]
    /\ Finished => Len(TerminalEvents) = 1
    /\ chat.late = 0

----------------------------------------------------------------------------
(* Properties of the session history *)

\* the handler of request r ends in this step
RequestCompletes(r) == rin[r].pc = "returned" /\ rin'[r].pc = "idle"

\* C37: when a request in session mode completes, the history of its session
\* holds the messages of the conversation the request built up, the
\* assistant's among them
HistoryPersisted ==
    [][\A r \in RequestIds :
          RequestCompletes(r) =>
             LET messages == rout'[rin[r].sessionId].messages
             IN /\ IsPrefix(rin[r].loopMessages, messages)
                /\ \E k \in 1..Len(messages) : messages[k].role = "assistant"]_vars

----------------------------------------------------------------------------
(* Properties of a review cycle interleaved with pipeline operations *)

\* who is where: per zone array the id, zone field, maturity and movedAt of
\* its components, in order
Placement(state) ==
    [z \in ZoneArrays |->
        [k \in 1..Len(state[z]) |->
            <<state[z][k].id, state[z][k].zone, state[z][k].maturity,
              state[z][k].movedAt>>]]

\* the step in which a review cycle persists its snapshot and returns
CycleEnds == rv.pc = "awaiting" /\ rv'.pc = "idle"

\* C38: the end of a review cycle leaves every component in the zone array
\* and with the zone field the operations before it gave it: a promote or
\* archive made while the cycle waited is neither lost nor reverted
CycleKeepsMoves ==
    [][CycleEnds => /\ Placement(pipeline') = Placement(pipeline)
                    /\ pipeline'.nextId = pipeline.nextId]_vars

\* a cycle that loaded its component in nursery has returned while the
\* component stands in workshop with the cycle's snapshot
PromotedDuringCycle ==
    /\ ret.op = "review"
    /\ ret.kind = "return"
    /\ ret.component.zone = "nursery"
    /\ \E k \in 1..Len(pipeline.workshop) :
           /\ pipeline.workshop[k].id = ret.component.id
           /\ pipeline.workshop[k].zone = "workshop"
           /\ pipeline.workshop[k].agentReviews # <<>>
    /\ Len(pipeline.nursery) = 0

----------------------------------------------------------------------------
(* Properties of zones without rules *)

\* C39: the approval of a zone that has no rule set in ZONE_RULES fails with
\* the unknown-zone reason, whatever the verdicts are
UnknownZoneFails ==
    (rout.evaluated /\ rin.zone \notin DOMAIN ZONE_RULES)
    => /\ ~rout.result.passed
       /\ rout.result.reason.kind = "unknown-zone"

----------------------------------------------------------------------------
(* Properties of the initiative registry *)

\* the event of an id that stands last in the file
RECURSIVE LastAppended(_, _)
LastAppended(events, id) ==
    IF events = <<>>
    THEN NoFilter
    ELSE IF events[Len(events)].id = id
    THEN events[Len(events)]
    ELSE LastAppended(SubSeq(events, 1, Len(events) - 1), id)

\* C40: what a query without filter returns for an id is the event of that id
\* appended last, also when events of the id carry the same timestamp
LatestEventSupersedes ==
    (rout.queried /\ rout.filter = NoFilter)
    => /\ Len(rout.result) = Cardinality(InitiativeIds(rin))
       /\ \A k \in 1..Len(rout.result) :
              rout.result[k] = LastAppended(rin, rout.result[k].id)

====
